---- MODULE Spec2Model ----
(***************************************************************************)
(* The perception-action control loop of backend/server.py (TankpitBot):   *)
(* the control-loop task run_bot_cycle and the sequences it calls, the     *)
(* stop handler, the start and login API handlers, and the shared record   *)
(* bot_state.                                                              *)
(*                                                                         *)
(* Every coroutine of the program that calls into the recursive chain      *)
(* (persistent search, overview map, landing sequence, ...) is a frame on  *)
(* the call stack of its task and advances one step at a time; a step is   *)
(* the code between two suspension points.  The coroutines that only talk  *)
(* to the browser (detect_*, collect_*, the moves, enter_game) are         *)
(* operators whose results are drawn from the environment: what the        *)
(* screen shows is not under the program's control.                        *)
(*                                                                         *)
(* The fuel sampler (detect_fuel_level, measure_fuel_gauge_simple) and the *)
(* two moves are also taken on their own, as functions of the screenshot:  *)
(* the variable probe holds their arguments and results.                   *)
(***************************************************************************)
EXTENDS Integers, Sequences, FiniteSets, TLC

VARIABLES
    running,    \* TankpitBot.running
    bot_state,  \* the global dict bot_state (running, status, current_fuel, shields_active, settings)
    page,       \* TankpitBot.page:    "none" (None) or "open"
    browser,    \* TankpitBot.browser: "none" (None) or "open"
    tasks,      \* the run_bot_cycle tasks created by start_bot: call stack, last return value, tick record
    stopper,    \* the position of the stop() call in flight ("idle" when there is none)
    acts,       \* the browser actions issued by the last step: by whom, and the value of running then
    env,        \* what the environment can produce (sensor readings, call outcomes, task slots)
    probe       \* the calls of a function looked at on its own: its arguments, and its results so far

vars == <<running, bot_state, page, browser, tasks, stopper, acts, env, probe>>

----------------------------------------------------------------------------
(* Bounds of the model *)

\* Number of run_bot_cycle tasks that can exist over time in the task-overlap specification.
MaxTasks == 2

\* The interpreter's limit on nested calls, counted in frames of the modelled coroutines.
RecursionLimit == 8

----------------------------------------------------------------------------
(* Program constants *)

max_search_attempts == 25

\* detect_fuel_level's value when there is no page, no image or no gauge.
DefaultFuel == 50

\* bot_state["settings"] at module load.
DefaultSettings == [shield_threshold |-> 10, refuel_threshold |-> 25, safe_threshold |-> 85]

shield_threshold == bot_state.settings.shield_threshold
refuel_threshold == bot_state.settings.refuel_threshold
safe_threshold == bot_state.settings.safe_threshold

----------------------------------------------------------------------------
(* Call stacks *)

TaskIds == 1 .. MaxTasks

\* A frame: the coroutine, its position, and its locals (current_fuel,
\* search_attempt / attempt, len(fuel_nodes), len(equipment_items)); in a
\* frame of the fuel-priority sequence, tele counts the overview-map
\* teleports made since the sequence was called.
Frame(fn) == [fn |-> fn, pc |-> "start", fuel |-> 0, att |-> 0, nodes |-> 0, equips |-> 0,
              tele |-> 0]

\* The last return: the coroutine that returned, its value, the position
\* it returned from and its local current_fuel at that time.
NoRet == [fn |-> "none", val |-> FALSE, fuel |-> 0, pc |-> "none"]

\* No threshold has been read.
NoSettings == [shield_threshold |-> 0, refuel_threshold |-> 0, safe_threshold |-> 0]

\* What the current iteration of the while loop of run_bot_cycle has done so
\* far; settings is the value of bot_state["settings"] that its first
\* threshold comparison read.
NewTick == [death |-> FALSE, stored |-> FALSE, shield |-> FALSE, usable |-> FALSE,
            nseq |-> 0, seq |-> "none", settings |-> NoSettings]

\* bot_state["current_fuel"] before anything is stored in it; detect_fuel_level
\* never returns it.
NoSample == 0

\* sampled is the value that the task's last call of detect_fuel_level
\* returned, whatever was done with it.
NoTask == [stack |-> <<>>, ret |-> NoRet, tick |-> NewTick, sampled |-> NoSample]

Stack(t) == tasks[t].stack
Depth(t) == Len(Stack(t))
Top(t) == Stack(t)[Depth(t)]
Alive(t) == Depth(t) > 0
At(t, fn, pc) == Alive(t) /\ Top(t).fn = fn /\ Top(t).pc = pc

SetTop(s, f) == [s EXCEPT ![Len(s)] = f]
Pop(s) == SubSeq(s, 1, Len(s) - 1)

\* The frame on top moves to pc.
Goto(t, pc) == SetTop(Stack(t), [Top(t) EXCEPT !.pc = pc])

\* The frame on top moves to pc and calls fn.
Call(t, pc, fn) == Append(Goto(t, pc), Frame(fn))

\* A call needs a free frame below the interpreter's limit; without one it
\* raises RecursionError in the caller.
CanCall(t) == Depth(t) < RecursionLimit

\* tasks with task t's stack and return value replaced.
Step(t, s, r) == [tasks EXCEPT ![t].stack = s, ![t].ret = r]

\* run_bot_cycle returns: the task is over.
Exit(t) == [tasks EXCEPT ![t] = NoTask]

\* Task t of ts has called detect_fuel_level, which returned f.
Sampling(ts, t, f) == [ts EXCEPT ![t].sampled = f]

\* The coroutine on top returns val to its caller.
Return(t, val) == Step(t, Pop(Stack(t)), [fn |-> Top(t).fn, val |-> val, fuel |-> Top(t).fuel,
                                          pc |-> Top(t).pc])

\* A faulty coroutine: nothing catches the exception and the task ends
\* with it.
Uncaught(t) == Exit(t)

\* An exception raised in the coroutine on top.  Every coroutine called by
\* run_bot_cycle wraps its whole body in try / except Exception: the
\* exception is logged and the coroutine returns to its caller, so that the
\* handler of the loop body itself is never reached.
Caught(t) == Return(t, FALSE)

----------------------------------------------------------------------------
(* The environment: the browser and what the screen shows *)

\* No call on the page can succeed: self.page is None, or the page has
\* stopped answering and every call on it raises.
Unusable == page = "none" \/ env.broken

\* A page call raises when self.page is None; on an open page it may still
\* fail (a transient actuator failure) when the environment is flaky.
PageCalls == IF Unusable THEN {FALSE}
             ELSE IF env.flaky THEN {TRUE, FALSE} ELSE {TRUE}

\* detect_fuel_level: DefaultFuel without a page or on an exception, else
\* what the gauge shows.
detect_fuel_level == IF Unusable THEN {DefaultFuel} ELSE env.fuels

\* detect_death: False without a page or on an exception, else what text
\* and brightness show.
detect_death == IF Unusable THEN {FALSE} ELSE env.deads

\* detect_fuel_nodes / detect_equipment_visually: the number of objects
\* returned; [] without a page or on an exception.
detect_fuel_nodes == IF Unusable THEN {0} ELSE env.nodes
detect_equipment_visually == IF Unusable THEN {0} ELSE env.equips

\* enter_game: False without a page or on an exception, else whether a map
\* was entered.
enter_game == IF Unusable THEN {FALSE} ELSE env.enters

\* The browser actions (key presses and clicks, and the detector calls of
\* the search) issued by the last step, in order, with their issuer and the value of self.running at that time.
NoActs == [by |-> "none", run |-> FALSE, keys |-> <<>>]

Emit(who, run, keys) == IF keys = <<>> THEN NoActs
                        ELSE [by |-> who, run |-> run,
                              keys |-> IF env.trace THEN keys ELSE <<>>]

Clicks(kind, n) == [i \in 1 .. n |-> kind]

----------------------------------------------------------------------------
(* run_bot_cycle *)

\* A faulty choice: the thresholds themselves belong to the balanced band.
SequenceStrict(f) ==
    IF f < refuel_threshold THEN "execute_fuel_priority_sequence"
    ELSE IF f > safe_threshold THEN "execute_safe_mode_sequence"
    ELSE "execute_balanced_sequence"

\* The branch of the main sequence logic for a fuel sample f.
SequenceFor(f) ==
    IF f <= refuel_threshold THEN "execute_fuel_priority_sequence"
    ELSE IF f >= safe_threshold THEN "execute_safe_mode_sequence"
    ELSE "execute_balanced_sequence"

\* A faulty shield rule: the fuel sample is not consulted.
ShieldsAlways(f) == ~bot_state.shields_active

\* The shield rule of the tick for a fuel sample f.
ShieldsNeeded(f) == f <= shield_threshold /\ ~bot_state.shields_active

\* Entering the game and calling the initial join sequence.
RunEnter(t) ==
    /\ At(t, "run_bot_cycle", "start")
    /\ \E ok \in enter_game :
         /\ acts' = Emit("loop", running, IF page = "none" THEN <<>> ELSE <<"click_play", "click_center">>)
         /\ IF ok
            THEN /\ bot_state' = [bot_state EXCEPT !.status = "entered_game"]
                 /\ tasks' = Step(t, Call(t, "loop", "perform_initial_join_sequence"), NoRet)
                 /\ UNCHANGED running
            ELSE /\ bot_state' = [bot_state EXCEPT !.status = "failed_to_enter_game"]
                 /\ running' = FALSE
                 /\ tasks' = Exit(t)
    /\ UNCHANGED <<page, browser, stopper, env, probe>>

\* A faulty iteration: after death handling it falls through to the fuel
\* sample.
FallThrough == "sample"

\* Where the iteration goes on after death handling: `continue`, the head
\* of the loop.
DeathContinue == "loop"

\* A faulty death check: the detector's answer is not acted upon.
IgnoreDeath(t, dead) == Goto(t, "sample")

\* The death check of the iteration: a detected death calls death handling
\* and skips the rest of the iteration, anything else goes on to the fuel
\* sample.
DeathBranch(t, dead) == IF dead THEN Call(t, DeathContinue, "handle_death_and_respawn")
                        ELSE Goto(t, "sample")

\* The head of the while loop: the running check, the reconnect attempt and
\* death detection; a detected death calls death handling and continues.
RunLoop(t) ==
    /\ At(t, "run_bot_cycle", "loop")
    /\ IF ~running
       THEN /\ tasks' = Exit(t)
            /\ acts' = NoActs
            /\ UNCHANGED <<running, bot_state>>
       ELSE LET lost == page = "none" \/ browser = "none" IN
            \E ok \in (IF lost THEN enter_game ELSE {TRUE}), dead \in detect_death :
              /\ acts' = Emit("loop", running, IF lost /\ page # "none"
                                      THEN <<"click_play", "click_center">> ELSE <<>>)
              /\ IF ~ok
                 THEN /\ bot_state' = [bot_state EXCEPT !.status = "connection_lost"]
                      /\ running' = FALSE
                      /\ tasks' = Exit(t)
                 ELSE /\ bot_state' = [bot_state EXCEPT !.status =
                                          IF lost THEN "reconnecting_browser" ELSE @]
                      /\ UNCHANGED running
                      /\ tasks' = [Step(t, DeathBranch(t, dead), NoRet)
                                     EXCEPT ![t].tick = [NewTick EXCEPT !.death = dead]]
    /\ UNCHANGED <<page, browser, stopper, env, probe>>

\* The fuel sample is stored and broadcast, and the shield rule is applied.
RunSample(t) ==
    /\ At(t, "run_bot_cycle", "sample")
    /\ \E f \in detect_fuel_level, ok \in PageCalls :
         LET shield == ShieldsNeeded(f) /\ page # "none" IN
         /\ bot_state' = [bot_state EXCEPT
                            !.current_fuel = f,
                            !.shields_active = IF shield THEN TRUE ELSE @,
                            !.status = IF shield THEN "shields_activated" ELSE @]
         /\ acts' = Emit("loop", running, IF shield /\ ok THEN <<"1">> ELSE <<>>)
         /\ tasks' = [Step(t, SetTop(Stack(t), [Top(t) EXCEPT !.pc = "decide", !.fuel = f]),
                            NoRet)
                        EXCEPT ![t].tick = [@ EXCEPT !.stored = TRUE, !.shield = shield,
                                                   !.settings = bot_state.settings],
                               ![t].sampled = f]
    /\ UNCHANGED <<running, page, browser, stopper, env, probe>>

\* The main sequence logic: one sequence chosen by the fuel sample, only
\* with a page.  current_fuel is not read after the comparisons: the frame
\* forgets it.
RunDecide(t) ==
    /\ At(t, "run_bot_cycle", "decide")
    /\ IF page # "none"
       THEN LET seq == SequenceFor(Top(t).fuel) IN
            /\ tasks' = [Step(t, Append(SetTop(Stack(t), [Top(t) EXCEPT !.pc = "sleep",
                                                                        !.fuel = 0]),
                                        Frame(seq)), NoRet)
                           EXCEPT ![t].tick = [@ EXCEPT !.usable = TRUE, !.seq = seq,
                                                        !.nseq = @ + 1]]
            /\ UNCHANGED bot_state
       ELSE /\ tasks' = Step(t, SetTop(Stack(t), [Top(t) EXCEPT !.pc = "sleep", !.fuel = 0]),
                             NoRet)
            /\ bot_state' = [bot_state EXCEPT !.status = "no_browser_session"]
    /\ acts' = NoActs
    /\ UNCHANGED <<running, page, browser, stopper, env, probe>>

\* asyncio.sleep(2) at the end of the iteration.
RunSleep(t) ==
    /\ At(t, "run_bot_cycle", "sleep")
    /\ tasks' = Step(t, Goto(t, "loop"), NoRet)
    /\ acts' = NoActs
    /\ UNCHANGED <<running, bot_state, page, browser, stopper, env, probe>>

----------------------------------------------------------------------------
(* Leaf coroutines: they catch every exception themselves *)

Min(a, b) == IF a <= b THEN a ELSE b

\* configure_equipment_settings: the fixed loadout key sequence.
ConfigureKeys == <<"a", "w", "m", "h", "r", "1", "2", "3", "4", "5">>

\* collect_all_equipment clicks every detected item, at most 10.
CollectAllEquipmentKeys(e) == Clicks("click_equip", Min(e, 10))

\* fast_collect_fuel_from_nodes clicks at most 5 of the n nodes and samples
\* the fuel after every second click, stopping at a sample >= safe_threshold:
\* the numbers of clicks it can make.
FastFuelClicks(n) ==
    {Min(n, 5)} \cup {k \in {2, 4} : k <= Min(n, 5)
                                     /\ \E f \in detect_fuel_level : f >= safe_threshold}

\* fast_collect_equipment detects again and clicks at most 5 items.
FastEquipmentClicks == {Min(e, 5) : e \in detect_equipment_visually}

\* A faulty choice of tactic: the edge on every second attempt.
ExplorationAlternating(k) == IF k % 2 = 0 THEN "move_to_screen_edge_and_radar"
                             ELSE "perform_random_proximity_move"

\* The exploration tactic of search attempt k that found nothing.
ExplorationFor(k) == IF k % 3 = 0 THEN "move_to_screen_edge_and_radar"
                     ELSE "perform_random_proximity_move"

ExplorationStatus(move) == IF move = "move_to_screen_edge_and_radar"
                           THEN "fast_edge_exploration" ELSE "searching_proximity"

ExplorationKeys(move) == IF move = "move_to_screen_edge_and_radar"
                         THEN <<"click_edge", "s">> ELSE <<"click_proximity", "s">>

\* What a detector called by the search returned: the number of objects.
Found(detector, n) == detector \o ":" \o ToString(n)

\* The page calls of fast_collect_fuel_from_nodes making cf clicks: a fuel
\* sample follows every second click.
FastFuelCalls(cf) == [p \in 1 .. cf + cf \div 2 |->
                        IF p % 3 = 0 THEN "detect_fuel_level" ELSE "click_fuel"]

\* The page calls of fast_collect_equipment: it detects again and clicks.
FastEquipmentCalls(ce) == <<"detect_equipment_visually">> \o Clicks("click_equip", ce)

\* A faulty attempt: equipment is collected before the fuel nodes, and the
\* gauge is read before the collection.
AttemptCallsEquipmentFirst(k, n, e, cf, ce, done) ==
    <<"s", Found("detect_fuel_nodes", n), Found("detect_equipment_visually", e)>>
        \o (IF n + e > 0
            THEN <<"detect_fuel_level">>
                     \o (IF e > 0 THEN FastEquipmentCalls(ce) ELSE <<>>)
                     \o (IF n > 0 THEN FastFuelCalls(cf) ELSE <<>>)
                     \o (IF done THEN <<>> ELSE <<"detect_fuel_level">>)
            ELSE ExplorationKeys(ExplorationFor(k)) \o <<"detect_fuel_level">>)

\* The calls of attempt k of the persistent search, in the order of the
\* loop body: the radar key, the two detectors with what they returned (n
\* nodes, e items), then either the two collections and the gauge (read
\* once more unless the search is done) or the exploration tactic and the
\* gauge.
AttemptCalls(k, n, e, cf, ce, done) ==
    <<"s", Found("detect_fuel_nodes", n), Found("detect_equipment_visually", e)>>
        \o (IF n + e > 0
            THEN (IF n > 0 THEN FastFuelCalls(cf) ELSE <<>>)
                     \o (IF e > 0 THEN FastEquipmentCalls(ce) ELSE <<>>)
                     \o <<"detect_fuel_level">>
                     \o (IF done THEN <<>> ELSE <<"detect_fuel_level">>)
            ELSE ExplorationKeys(ExplorationFor(k)) \o <<"detect_fuel_level">>)

----------------------------------------------------------------------------
(* perform_initial_join_sequence *)

JoinStart(t) ==
    /\ At(t, "perform_initial_join_sequence", "start")
    /\ IF page = "none"
       THEN /\ bot_state' = [bot_state EXCEPT !.status = "no_browser_session"]
            /\ tasks' = Return(t, FALSE)
            /\ acts' = NoActs
       ELSE \E ok \in PageCalls :
            IF ok /\ CanCall(t)
            THEN /\ bot_state' = [bot_state EXCEPT !.status = "configuring_equipment"]
                 /\ acts' = Emit("loop", running, ConfigureKeys \o <<"s">>)
                 /\ tasks' = Step(t, Call(t, "equip", "collect_fuel_until_safe"), NoRet)
            ELSE /\ bot_state' = [bot_state EXCEPT !.status = "join_sequence_error"]
                 /\ acts' = Emit("loop", running,
                                 ConfigureKeys \o (IF ok THEN <<"s">> ELSE <<>>))
                 /\ tasks' = Caught(t)
    /\ UNCHANGED <<running, page, browser, stopper, env, probe>>

JoinEquip(t) ==
    /\ At(t, "perform_initial_join_sequence", "equip")
    /\ \E e \in detect_equipment_visually :
         acts' = Emit("loop", running, CollectAllEquipmentKeys(e))
    /\ bot_state' = [bot_state EXCEPT !.status = "join_sequence_complete"]
    /\ tasks' = Return(t, FALSE)
    /\ UNCHANGED <<running, page, browser, stopper, env, probe>>

----------------------------------------------------------------------------
(* collect_fuel_until_safe *)

CollectStart(t) ==
    /\ At(t, "collect_fuel_until_safe", "start")
    /\ \E f \in detect_fuel_level :
         IF f < safe_threshold /\ CanCall(t)
         THEN tasks' = Sampling(Step(t, Call(t, "after",
                                            "persistent_fuel_and_equipment_search"), NoRet),
                               t, f)
         ELSE tasks' = Sampling(Return(t, FALSE), t, f)
    /\ acts' = NoActs
    /\ UNCHANGED <<running, bot_state, page, browser, stopper, env, probe>>

CollectAfter(t) ==
    /\ At(t, "collect_fuel_until_safe", "after")
    /\ \E final_fuel \in detect_fuel_level :
         tasks' = Sampling(Return(t, FALSE), t, final_fuel)
    /\ acts' = NoActs
    /\ UNCHANGED <<running, bot_state, page, browser, stopper, env, probe>>

----------------------------------------------------------------------------
(* persistent_fuel_and_equipment_search *)

SearchStart(t) ==
    /\ At(t, "persistent_fuel_and_equipment_search", "start")
    /\ IF page = "none"
       THEN tasks' = Return(t, FALSE)
       ELSE \E f \in detect_fuel_level :
              tasks' = Sampling(Step(t, SetTop(Stack(t), [Top(t) EXCEPT !.pc = "loop",
                                                                       !.fuel = f,
                                                                       !.att = 0]), NoRet),
                               t, f)
    /\ acts' = NoActs
    /\ UNCHANGED <<running, bot_state, page, browser, stopper, env, probe>>

\* A faulty loop condition: the search is content with the refuel threshold.
SearchUntilRefuel(fr) == fr.fuel < refuel_threshold /\ fr.att < max_search_attempts

\* A faulty loop: the condition is tested after the first attempt only.
SearchAtLeastOnce(fr) ==
    fr.att < max_search_attempts /\ (fr.fuel < safe_threshold \/ fr.att = 0)

\* The loop condition of the search.
SearchContinues(fr) == fr.fuel < safe_threshold /\ fr.att < max_search_attempts

\* One attempt of the while loop: radar, detection, collection or
\* exploration, and the fuel samples.
SearchAttempt(t) ==
    /\ At(t, "persistent_fuel_and_equipment_search", "loop")
    /\ SearchContinues(Top(t))
    /\ LET k == Top(t).att + 1 IN
       \E ok \in PageCalls :
         IF ~ok
         THEN /\ bot_state' = [bot_state EXCEPT !.status = "fast_search_" \o ToString(k)]
              /\ acts' = NoActs
              /\ tasks' = Caught(t)
         ELSE \E n \in detect_fuel_nodes, e \in detect_equipment_visually :
              IF n + e > 0
              THEN \E cf \in FastFuelClicks(n), ce \in FastEquipmentClicks,
                      f1 \in detect_fuel_level :
                   /\ acts' = Emit("loop", running,
                                   AttemptCalls(k, n, e, cf, ce, f1 >= safe_threshold))
                   /\ IF f1 >= safe_threshold
                      THEN /\ bot_state' = [bot_state EXCEPT !.status = "fast_search_complete"]
                           /\ tasks' = Sampling(Step(t, Pop(Stack(t)),
                                                    [fn |-> Top(t).fn, val |-> TRUE,
                                                     fuel |-> f1, pc |-> Top(t).pc]),
                                               t, f1)
                      ELSE \E f2 \in detect_fuel_level :
                           /\ bot_state' = [bot_state EXCEPT
                                              !.status = "fast_search_" \o ToString(k)]
                           /\ tasks' = Sampling(Step(t, SetTop(Stack(t),
                                                      [Top(t) EXCEPT !.att = k, !.fuel = f2]),
                                                    NoRet),
                                               t, f2)
              ELSE \E f2 \in detect_fuel_level :
                   /\ acts' = Emit("loop", running, AttemptCalls(k, 0, 0, 0, 0, FALSE))
                   /\ bot_state' = [bot_state EXCEPT
                                      !.status = ExplorationStatus(ExplorationFor(k))]
                   /\ tasks' = Sampling(Step(t, SetTop(Stack(t),
                                              [Top(t) EXCEPT !.att = k, !.fuel = f2]), NoRet),
                                       t, f2)
    /\ UNCHANGED <<running, page, browser, stopper, env, probe>>

\* After the loop: exhaustion calls the overview map, anything else
\* returns.  current_fuel is not read after the loop: the frame forgets it.
SearchExit(t) ==
    /\ At(t, "persistent_fuel_and_equipment_search", "loop")
    /\ ~SearchContinues(Top(t))
    /\ IF Top(t).att >= max_search_attempts
       THEN IF CanCall(t)
            THEN tasks' = Step(t, Append(SetTop(Stack(t), [Top(t) EXCEPT !.pc = "exhausted",
                                                                         !.fuel = 0]),
                                         Frame("use_overview_map_for_fuel")), NoRet)
            ELSE tasks' = Caught(t)
       ELSE tasks' = Return(t, TRUE)
    /\ acts' = NoActs
    /\ UNCHANGED <<running, bot_state, page, browser, stopper, env, probe>>

SearchExhausted(t) ==
    /\ At(t, "persistent_fuel_and_equipment_search", "exhausted")
    /\ tasks' = Return(t, FALSE)
    /\ acts' = NoActs
    /\ UNCHANGED <<running, bot_state, page, browser, stopper, env, probe>>

----------------------------------------------------------------------------
(* use_overview_map_for_fuel and execute_landing_sequence *)

\* Every fuel-priority sequence on the stack s counts one more teleport.
Teleported(s) == [i \in 1 .. Len(s) |->
                    IF s[i].fn = "execute_fuel_priority_sequence"
                    THEN [s[i] EXCEPT !.tele = @ + 1] ELSE s[i]]

OverviewStart(t) ==
    /\ At(t, "use_overview_map_for_fuel", "start")
    /\ bot_state' = [bot_state EXCEPT !.status = "using_overview_map"]
    /\ \E ok \in PageCalls, img \in env.images :
         IF ~ok
         THEN /\ acts' = NoActs
              /\ tasks' = Caught(t)
         ELSE IF ~img
         THEN /\ acts' = Emit("loop", running, <<"f", "escape">>)
              /\ tasks' = Return(t, FALSE)
         ELSE /\ acts' = Emit("loop", running, <<"f", "click_map">>)
              /\ IF CanCall(t)
                 THEN tasks' = Step(t, Append(Teleported(Goto(t, "after")),
                                              Frame("execute_landing_sequence")), NoRet)
                 ELSE tasks' = Step(t, Teleported(Pop(Stack(t))),
                                    [fn |-> Top(t).fn, val |-> FALSE, fuel |-> 0, pc |-> Top(t).pc])
    /\ UNCHANGED <<running, page, browser, stopper, env, probe>>

OverviewAfter(t) ==
    /\ At(t, "use_overview_map_for_fuel", "after")
    /\ tasks' = Return(t, FALSE)
    /\ acts' = NoActs
    /\ UNCHANGED <<running, bot_state, page, browser, stopper, env, probe>>

LandingStart(t) ==
    /\ At(t, "execute_landing_sequence", "start")
    /\ \E ok \in PageCalls :
         IF ok /\ CanCall(t)
         THEN /\ bot_state' = [bot_state EXCEPT !.status = "configuring_equipment"]
              /\ acts' = Emit("loop", running, ConfigureKeys \o <<"s", "d">>)
              /\ tasks' = Step(t, Call(t, "equip", "collect_fuel_until_safe"), NoRet)
         ELSE /\ bot_state' = [bot_state EXCEPT !.status =
                                  IF page = "none" THEN "post_landing_sequence"
                                  ELSE "configuring_equipment"]
              /\ acts' = Emit("loop", running,
                              IF page = "none" THEN <<>>
                              ELSE ConfigureKeys \o (IF ok THEN <<"s", "d">> ELSE <<>>))
              /\ tasks' = Caught(t)
    /\ UNCHANGED <<running, page, browser, stopper, env, probe>>

LandingEquip(t) ==
    /\ At(t, "execute_landing_sequence", "equip")
    /\ \E e \in detect_equipment_visually :
         acts' = Emit("loop", running, CollectAllEquipmentKeys(e))
    /\ tasks' = Return(t, FALSE)
    /\ UNCHANGED <<running, bot_state, page, browser, stopper, env, probe>>

----------------------------------------------------------------------------
(* handle_death_and_respawn *)

DeathStart(t) ==
    /\ At(t, "handle_death_and_respawn", "start")
    /\ \E ok \in PageCalls :
         IF ok
         THEN /\ bot_state' = [bot_state EXCEPT !.status = "handling_death"]
              /\ acts' = Emit("loop", running, <<"q">>)
              /\ tasks' = Step(t, Call(t, "after", "use_overview_map_for_fuel"), NoRet)
         ELSE /\ bot_state' = [bot_state EXCEPT !.status = "death_handling_error"]
              /\ acts' = NoActs
              /\ tasks' = Caught(t)
    /\ UNCHANGED <<running, page, browser, stopper, env, probe>>

DeathAfter(t) ==
    /\ At(t, "handle_death_and_respawn", "after")
    /\ bot_state' = [bot_state EXCEPT !.status = "respawned"]
    /\ tasks' = Return(t, FALSE)
    /\ acts' = NoActs
    /\ UNCHANGED <<running, page, browser, stopper, env, probe>>

----------------------------------------------------------------------------
(* execute_fuel_priority_sequence *)

FuelStart(t) ==
    /\ At(t, "execute_fuel_priority_sequence", "start")
    /\ IF page = "none"
       THEN /\ bot_state' = [bot_state EXCEPT !.status = "no_browser_session"]
            /\ tasks' = Return(t, FALSE)
       ELSE /\ bot_state' = [bot_state EXCEPT !.status = "fuel_priority_mode"]
            /\ tasks' = Step(t, Call(t, "searched", "persistent_fuel_and_equipment_search"),
                             NoRet)
    /\ acts' = NoActs
    /\ UNCHANGED <<running, page, browser, stopper, env, probe>>

\* After the first search: a failed search calls the overview map.
FuelSearched(t) ==
    /\ At(t, "execute_fuel_priority_sequence", "searched")
    /\ IF tasks[t].ret.val
       THEN tasks' = Return(t, FALSE)
       ELSE tasks' = Step(t, Call(t, "teleported", "use_overview_map_for_fuel"), NoRet)
    /\ acts' = NoActs
    /\ UNCHANGED <<running, bot_state, page, browser, stopper, env, probe>>

\* After the overview map: the search is tried again.
FuelTeleported(t) ==
    /\ At(t, "execute_fuel_priority_sequence", "teleported")
    /\ tasks' = Step(t, Call(t, "retried", "persistent_fuel_and_equipment_search"), NoRet)
    /\ acts' = NoActs
    /\ UNCHANGED <<running, bot_state, page, browser, stopper, env, probe>>

FuelRetried(t) ==
    /\ At(t, "execute_fuel_priority_sequence", "retried")
    /\ tasks' = Return(t, FALSE)
    /\ acts' = NoActs
    /\ UNCHANGED <<running, bot_state, page, browser, stopper, env, probe>>

----------------------------------------------------------------------------
(* execute_safe_mode_sequence *)

SafeMode(t) ==
    /\ At(t, "execute_safe_mode_sequence", "start")
    /\ IF page = "none"
       THEN /\ bot_state' = [bot_state EXCEPT !.status = "no_browser_session"]
            /\ acts' = NoActs
       ELSE /\ bot_state' = [bot_state EXCEPT !.status = "safe_mode_stationary",
                                              !.shields_active = FALSE]
            /\ \E ok \in PageCalls, e \in detect_equipment_visually :
                 acts' = Emit("loop", running,
                              IF ok THEN <<"s">> \o CollectAllEquipmentKeys(e) ELSE <<>>)
    /\ tasks' = Return(t, FALSE)
    /\ UNCHANGED <<running, page, browser, stopper, env, probe>>

----------------------------------------------------------------------------
(* execute_balanced_sequence *)

\* The limited search of the balanced mode.
balanced_search_attempts == 5

\* collect_fuel_from_nodes samples the fuel before every click and stops at
\* a sample >= safe_threshold: the numbers of clicks it can make on n nodes.
CollectFuelClicks(n) ==
    {k \in 0 .. n : /\ k < n => \E f \in detect_fuel_level : f >= safe_threshold
                    /\ k > 0 => \E f \in detect_fuel_level : f < safe_threshold}

\* A faulty alternation: the edge on the even iterations.
\* The last sample of collect_fuel_from_nodes when it makes k clicks on n
\* nodes: the one that stopped it, or the one before its last click; prev
\* when it has no node to sample for.
LastCollectSample(n, k, prev) ==
    IF n = 0 THEN {prev}
    ELSE {f \in detect_fuel_level : k < n <=> f >= safe_threshold}

BalancedMoveEdgeFirst(i) == IF i % 2 = 0 THEN "move_to_screen_edge_and_radar"
                            ELSE "perform_random_proximity_move"

BalancedMove(i) == IF i % 2 = 0 THEN "perform_random_proximity_move"
                   ELSE "move_to_screen_edge_and_radar"

BalancedStart(t) ==
    /\ At(t, "execute_balanced_sequence", "start")
    /\ IF page = "none"
       THEN /\ bot_state' = [bot_state EXCEPT !.status = "no_browser_session"]
            /\ acts' = NoActs
            /\ tasks' = Return(t, FALSE)
       ELSE /\ bot_state' = [bot_state EXCEPT !.status = "balanced_mode"]
            /\ \E ok \in PageCalls, n \in detect_fuel_nodes, e \in detect_equipment_visually :
                 IF ~ok
                 THEN /\ acts' = NoActs
                      /\ tasks' = Caught(t)
                 ELSE /\ acts' = Emit("loop", running, <<"s", "d">>)
                      /\ \E f \in (IF n + e = 0 THEN detect_fuel_level
                                  ELSE {tasks[t].sampled}) :
                           tasks' = Sampling(Step(t, SetTop(Stack(t),
                                         [Top(t) EXCEPT !.pc = IF n + e = 0 THEN "explore"
                                                               ELSE "collect",
                                                        !.att = 0, !.nodes = n, !.equips = e]),
                                       NoRet), t, f)
    /\ UNCHANGED <<running, page, browser, stopper, env, probe>>

\* One iteration of the for loop over range(search_attempts).
BalancedExplore(t) ==
    /\ At(t, "execute_balanced_sequence", "explore")
    /\ LET move == BalancedMove(Top(t).att) IN
       \E n \in detect_fuel_nodes, e \in detect_equipment_visually :
         /\ bot_state' = [bot_state EXCEPT !.status =
                            IF page = "none" THEN @ ELSE ExplorationStatus(move)]
         /\ acts' = Emit("loop", running,
                         IF page = "none" THEN <<>> ELSE ExplorationKeys(move))
         /\ tasks' = Step(t, SetTop(Stack(t),
                            [Top(t) EXCEPT !.pc = IF n + e > 0
                                                     \/ Top(t).att + 1 >= balanced_search_attempts
                                                  THEN "collect" ELSE "explore",
                                           !.att = @ + 1, !.nodes = n, !.equips = e]),
                          NoRet)
    /\ UNCHANGED <<running, page, browser, stopper, env, probe>>

\* At most two fuel nodes are collected, then the equipment.
BalancedCollect(t) ==
    /\ At(t, "execute_balanced_sequence", "collect")
    /\ \E cf \in CollectFuelClicks(Min(Top(t).nodes, 2)), e \in detect_equipment_visually :
         /\ acts' = Emit("loop", running,
                         IF page = "none" THEN <<>>
                         ELSE Clicks("click_fuel", cf)
                              \o (IF Top(t).equips > 0 THEN CollectAllEquipmentKeys(e)
                                  ELSE <<>>))
         /\ \E f \in LastCollectSample(Min(Top(t).nodes, 2), cf, tasks[t].sampled) :
              tasks' = Sampling(Return(t, FALSE), t, f)
    /\ UNCHANGED <<running, bot_state, page, browser, stopper, env, probe>>

----------------------------------------------------------------------------
(* The API handlers: start_bot, stop, login_to_tankpit *)

\* The free task slots of this behaviour.
FreeSlots == {t \in 1 .. env.slots : ~Alive(t)}

\* POST /bot/start: a new run_bot_cycle task unless running is set.
StartBot ==
    /\ ~running
    /\ FreeSlots # {}
    /\ LET t == CHOOSE u \in FreeSlots : \A v \in FreeSlots : u <= v IN
       tasks' = [tasks EXCEPT ![t] = [NoTask EXCEPT !.stack = <<Frame("run_bot_cycle")>>]]
    /\ running' = TRUE
    /\ bot_state' = [bot_state EXCEPT !.running = TRUE, !.status = "starting"]
    /\ acts' = NoActs
    /\ UNCHANGED <<page, browser, stopper, env, probe>>

\* cleanup_browser from its start: the first close call it waits for.
CleanupFrom(pg, br) == IF pg # "none" THEN "page_close"
                       ELSE IF br # "none" THEN "browser_close" ELSE "idle"

\* POST /bot/stop, up to the exit-map key press it waits for (or, without
\* a page, up to the first close call of cleanup_browser).
StopCall ==
    /\ stopper = "idle"
    /\ running' = FALSE
    /\ IF page # "none"
       THEN /\ bot_state' = [bot_state EXCEPT !.running = FALSE, !.status = "stopping"]
            /\ stopper' = "quit"
            /\ acts' = Emit("stop", FALSE, <<"q">>)
       ELSE /\ bot_state' = [bot_state EXCEPT !.running = FALSE, !.status = "stopped"]
            /\ stopper' = CleanupFrom(page, browser)
            /\ acts' = NoActs
    /\ UNCHANGED <<page, browser, tasks, env, probe>>

\* The key press and the wait are over: the status is "stopped" and
\* cleanup_browser starts.
StopQuit ==
    /\ stopper = "quit"
    /\ bot_state' = [bot_state EXCEPT !.status = "stopped"]
    /\ stopper' = CleanupFrom(page, browser)
    /\ acts' = NoActs
    /\ UNCHANGED <<running, page, browser, tasks, env, probe>>

\* page.close() is over: self.page = None, then the browser; an exception
\* ends cleanup_browser.
StopPageClose ==
    /\ stopper = "page_close"
    /\ \E ok \in (IF env.flaky THEN {TRUE, FALSE} ELSE {TRUE}) :
         IF ok
         THEN /\ page' = "none"
              /\ stopper' = CleanupFrom("none", browser)
         ELSE /\ page' = page
              /\ stopper' = "idle"
    /\ acts' = NoActs
    /\ UNCHANGED <<running, bot_state, browser, tasks, env, probe>>

\* browser.close() is over: self.browser = None.
StopBrowserClose ==
    /\ stopper = "browser_close"
    /\ \E ok \in (IF env.flaky THEN {TRUE, FALSE} ELSE {TRUE}) :
         browser' = IF ok THEN "none" ELSE browser
    /\ stopper' = "idle"
    /\ acts' = NoActs
    /\ UNCHANGED <<running, bot_state, page, tasks, env, probe>>

\* POST /bot/login: start_browser replaces browser and page; on a failure
\* it cleans both up.
Login ==
    /\ \E ok \in env.logins :
         /\ page' = IF ok THEN "open" ELSE "none"
         /\ browser' = IF ok THEN "open" ELSE "none"
    /\ <<page', browser'>> # <<page, browser>>
    /\ acts' = NoActs
    /\ UNCHANGED <<running, bot_state, tasks, stopper, env, probe>>

----------------------------------------------------------------------------
(* The fuel sampler: detect_fuel_level and measure_fuel_gauge_simple *)

(* A screenshot is a grid of BGR pixels.  The screenshots of the model have *)
(* equal rows: the first `split' columns hold the pixel `left', the others  *)
(* the pixel `right'.  An area of a screenshot is the slice of the rows     *)
(* r0 .. r1-1 and of the columns c0 .. c1-1, counted from 0.                *)
PixelAt(img, c) == IF c < img.split THEN img.left ELSE img.right

\* cv2.inRange on one pixel: every channel lies between the two bounds, bounds included.
inRange(px, lower, upper) == \A ch \in 1..3 : lower[ch] <= px[ch] /\ px[ch] <= upper[ch]

\* cv2.countNonZero(cv2.inRange(area, lower, upper))
countInRange(img, area, lower, upper) ==
    (area.r1 - area.r0)
        * Cardinality({c \in area.c0 .. (area.c1 - 1) : inRange(PixelAt(img, c), lower, upper)})

\* fuel_gauge_area.size
AreaSize(area) ==
    (IF area.r1 > area.r0 THEN area.r1 - area.r0 ELSE 0)
        * (IF area.c1 > area.c0 THEN area.c1 - area.c0 ELSE 0)

fuel_color_ranges ==
    << << <<0, 100, 0>>,     <<100, 255, 100>> >>,    \* green
       << <<100, 100, 0>>,   <<255, 255, 100>> >>,    \* blue
       << <<0, 150, 150>>,   <<100, 255, 255>> >>,    \* yellow
       << <<0, 0, 100>>,     <<100, 100, 255>> >>,    \* red
       << <<150, 150, 150>>, <<255, 255, 255>> >> >>  \* white/gray

black_lower == <<0, 0, 0>>
black_upper == <<50, 50, 50>>
colored_lower == <<51, 51, 51>>
colored_upper == <<255, 255, 255>>

\* The value None of a measurement: no percentage.
None == -1

\* The whole percentages q for which the float product (q / 100) * 100 lies
\* just below q, so that int() gives q - 1.
TruncatedDown == {29, 57, 58}

\* max(0, min(100, int((part / total) * 100))), for 0 <= part <= total and total > 0
fuel_percentage_of(part, total) ==
    LET q == (part * 100) \div total
        f == IF (part * 100) % total = 0 /\ q \in TruncatedDown THEN q - 1 ELSE q
    IN  IF f < 0 THEN 0 ELSE IF f > 100 THEN 100 ELSE f

\* Fewest fuel pixels of a colour range for its percentage to be trusted.
MinFuelPixels == 50

\* Fewest relevant pixels for a percentage to be computed.
MinRelevantPixels == 100

\* The loop over fuel_color_ranges, from range i on: a range with more fuel
\* pixels than every range before it becomes the maximum, and sets the
\* percentage if there are enough relevant pixels.
RECURSIVE ScanRanges(_, _, _, _, _)
ScanRanges(img, area, i, best, max_fuel_pixels) ==
    IF i > Len(fuel_color_ranges)
    THEN [best |-> best, max |-> max_fuel_pixels]
    ELSE LET fuel_pixels  == countInRange(img, area, fuel_color_ranges[i][1], fuel_color_ranges[i][2])
             black_pixels == countInRange(img, area, black_lower, black_upper)
             total        == fuel_pixels + black_pixels
         IN  IF fuel_pixels > max_fuel_pixels
             THEN ScanRanges(img, area, i + 1,
                             IF total > MinRelevantPixels
                             THEN fuel_percentage_of(fuel_pixels, total) ELSE best,
                             fuel_pixels)
             ELSE ScanRanges(img, area, i + 1, best, max_fuel_pixels)

\* The black-versus-colored measurement taken when no colour range gave a trusted percentage.
BlackVsColored(img, area) ==
    LET black_pixels   == countInRange(img, area, black_lower, black_upper)
        colored_pixels == countInRange(img, area, colored_lower, colored_upper)
        total          == black_pixels + colored_pixels
    IN  IF total > MinRelevantPixels THEN fuel_percentage_of(colored_pixels, total) ELSE None

measure_fuel_gauge_simple(img, area) ==
    IF AreaSize(area) = 0
    THEN None
    ELSE LET scan == ScanRanges(img, area, 1, None, 0)
         IN  IF scan.best = None \/ scan.max < MinFuelPixels
             THEN BlackVsColored(img, area)
             ELSE scan.best

\* int(n * 0.xy) for the fractions of detect_fuel_level; the float product
\* truncates to the same integer for the sizes of the model.
Hundredths(n, xy) == (n * xy) \div 100

\* The four areas of detect_fuel_level, in the order they are tried:
\* bottom 15%, bottom 25%, right 20%, middle right.
GaugeAreas(img) ==
    LET h == img.height
        w == img.width
    IN  << [r0 |-> Hundredths(h, 85), r1 |-> h, c0 |-> 0, c1 |-> w],
           [r0 |-> Hundredths(h, 75), r1 |-> h, c0 |-> 0, c1 |-> w],
           [r0 |-> 0, r1 |-> h, c0 |-> Hundredths(w, 80), c1 |-> w],
           [r0 |-> Hundredths(h, 60), r1 |-> Hundredths(h, 90), c0 |-> Hundredths(w, 70), c1 |-> w] >>

\* A sampler that returns whatever the first area measures.
LocatedAlways(fuel_percentage) == TRUE

\* A measurement is returned when it is a percentage above zero.
Located(fuel_percentage) == fuel_percentage # None /\ fuel_percentage > 0

\* A sampler that remembers: the value it returned last, 75 before the first.
LastKnownFuel == IF probe.outs = <<>> THEN 75 ELSE probe.outs[Len(probe.outs)]

\* What detect_fuel_level returns when no area located the gauge.
NoGaugeFuel == DefaultFuel

\* The areas from the i-th on, tried in order.
RECURSIVE TryAreas(_, _)
TryAreas(img, i) ==
    IF i > Len(GaugeAreas(img))
    THEN NoGaugeFuel
    ELSE LET fuel_percentage == measure_fuel_gauge_simple(img, GaugeAreas(img)[i])
         IN  IF Located(fuel_percentage) THEN fuel_percentage ELSE TryAreas(img, i + 1)

\* detect_fuel_level on one call: `shot' tells whether there is a page,
\* whether the screenshot call raises, whether its bytes decode, and the
\* image they decode to.
FuelLevelOf(shot) ==
    IF ~shot.page THEN DefaultFuel
    ELSE IF shot.raises THEN DefaultFuel
    ELSE IF ~shot.decodes THEN DefaultFuel
    ELSE TryAreas(shot.img, 1)

----------------------------------------------------------------------------
(* The moves: move_to_screen_edge_and_radar and perform_random_proximity_move *)

\* margin of move_to_screen_edge_and_radar
margin == 30

\* The distance from an edge that the proximity move clamps its target to.
proximity_margin == 50

Abs(n) == IF n < 0 THEN -n ELSE n

\* max(lo, min(hi, n)): the min is taken first, so lo wins when lo > hi.
Clamp(lo, hi, n) ==
    LET m == IF n < hi THEN n ELSE hi
    IN  IF m > lo THEN m ELSE lo

\* A move that returned without a click: no page, no image, or an exception
\* (random.randint on an empty range raises ValueError) caught by the move.
NoClick == [fn |-> "none", clicked |-> FALSE, x |-> 0, y |-> 0, offset_x |-> 0, offset_y |-> 0]

Click(fn, x, y, ox, oy) ==
    [fn |-> fn, clicked |-> TRUE, x |-> x, y |-> y, offset_x |-> ox, offset_y |-> oy]

\* random.randint(a, b): any integer of a..b; none when a > b (it raises).
randint(a, b) == a..b

\* The clicks move_to_screen_edge_and_radar can make on an image: the edge
\* is 0 (top), 1 (right), 2 (bottom) or 3 (left).
EdgeClicks(img) ==
    LET xs == randint(margin, img.width - margin)
        ys == randint(margin, img.height - margin)
    IN       {Click("edge", x, margin, 0, 0) : x \in xs}
        \cup {Click("edge", img.width - margin, y, 0, 0) : y \in ys}
        \cup {Click("edge", x, img.height - margin, 0, 0) : x \in xs}
        \cup {Click("edge", margin, y, 0, 0) : y \in ys}

\* The two definitions of perform_random_proximity_move in the class body,
\* by the range of random.uniform for the distance.  The later definition
\* replaces the earlier one: it is the method the bot calls.
ProximityFirst == [lo |-> 5, hi |-> 12]
ProximitySecond == [lo |-> 5, hi |-> 15]
ProximityDistance == ProximitySecond

\* The pairs (int(d * cos(a)), int(d * sin(a))) for a distance d of
\* dist.lo .. dist.hi and any angle a.  int() truncates towards zero, so the
\* point (x, y) of the pair (ox, oy) has |ox| <= |x| < |ox| + 1 and the same
\* for y; such a point lies at a distance of dist.lo .. dist.hi exactly when
\* the nearest corner of that box is not beyond dist.hi and the farthest one
\* is beyond dist.lo.
Offsets(dist) ==
    {o \in (-dist.hi .. dist.hi) \X (-dist.hi .. dist.hi) :
        /\ o[1] * o[1] + o[2] * o[2] <= dist.hi * dist.hi
        /\ (Abs(o[1]) + 1) * (Abs(o[1]) + 1) + (Abs(o[2]) + 1) * (Abs(o[2]) + 1) > dist.lo * dist.lo}

\* The clicks perform_random_proximity_move can make on an image.
ProximityClicks(img) ==
    {Click("proximity",
           Clamp(proximity_margin, img.width - proximity_margin, (img.width \div 2) + o[1]),
           Clamp(proximity_margin, img.height - proximity_margin, (img.height \div 2) + o[2]),
           o[1], o[2]) : o \in Offsets(ProximityDistance)}

----------------------------------------------------------------------------
(* The object detectors: detect_fuel_nodes and detect_equipment_visually *)

(* The colour masks, the morphology and cv2.findContours are the library's: *)
(* a screenshot is given to a detector as the contours they find in it,    *)
(* in the order the library returns them.  A contour has its area, its      *)
(* bounding rectangle (x, y, w, h) and the mean brightness of the pixels of *)
(* that rectangle.                                                          *)

\* The stable sort list.sort(key=lambda x: x[field], reverse=True): an item
\* goes behind every item whose key is not smaller than its own.
RECURSIVE InsertDescending(_, _, _)
InsertDescending(item, sorted, field) ==
    IF sorted = <<>> THEN <<item>>
    ELSE IF Head(sorted)[field] >= item[field]
         THEN <<Head(sorted)>> \o InsertDescending(item, Tail(sorted), field)
         ELSE <<item>> \o sorted

\* A detector that returns its items in the order of the contours.
Unsorted(items, field) == items

RECURSIVE SortDescending(_, _)
SortDescending(items, field) ==
    IF items = <<>> THEN <<>>
    ELSE InsertDescending(items[Len(items)],
                          SortDescending(SubSeq(items, 1, Len(items) - 1), field), field)

\* items[:n]
\* A faulty cap: the list is returned whole.
Uncapped(items, n) == items

FirstN(items, n) == SubSeq(items, 1, IF Len(items) < n THEN Len(items) ELSE n)

\* A faulty filter: only the left and top edges are avoided.
AwayFromNearEdges(c, img, edge) == edge < c.x /\ edge < c.y

\* margin < x < width - margin - w and margin < y < height - margin - h
AwayFromEdges(c, img, edge) ==
    /\ edge < c.x /\ c.x < img.width - edge - c.w
    /\ edge < c.y /\ c.y < img.height - edge - c.h

\* max(10, min(100, int((area / 20) + (avg_brightness / 10)))); the float
\* sum truncates to this integer for the areas and brightnesses of the model.
estimated_value(area, avg_brightness) ==
    LET v == (area + 2 * avg_brightness) \div 20
    IN  IF v < 10 THEN 10 ELSE IF v > 100 THEN 100 ELSE v

\* The loop over the contours of detect_fuel_nodes: area, aspect ratio
\* (0.5 < w / h < 2.0) and margin filters, then the item of the contour.
RECURSIVE FuelNodeItems(_, _)
FuelNodeItems(contours, img) ==
    IF contours = <<>> THEN <<>>
    ELSE LET c == Head(contours)
             rest == FuelNodeItems(Tail(contours), img)
         IN  IF /\ 80 < c.area /\ c.area < 3000
                /\ c.h > 0 /\ c.h < 2 * c.w /\ c.w < 2 * c.h
                /\ AwayFromEdges(c, img, 40)
             THEN <<[x |-> c.x + (c.w \div 2), y |-> c.y + (c.h \div 2),
                     width |-> c.w, height |-> c.h, area |-> c.area,
                     brightness |-> c.brightness,
                     estimated_value |-> estimated_value(c.area, c.brightness)]>> \o rest
             ELSE rest

\* The loop over the contours of detect_equipment_visually (0.3 < w / h < 3.0).
RECURSIVE EquipmentItems(_, _)
EquipmentItems(contours, img) ==
    IF contours = <<>> THEN <<>>
    ELSE LET c == Head(contours)
             rest == EquipmentItems(Tail(contours), img)
         IN  IF /\ 100 < c.area /\ c.area < 5000
                /\ c.h > 0 /\ 3 * c.h < 10 * c.w /\ c.w < 3 * c.h
                /\ AwayFromEdges(c, img, 50)
             THEN <<[x |-> c.x + (c.w \div 2), y |-> c.y + (c.h \div 2),
                     width |-> c.w, height |-> c.h, area |-> c.area]>> \o rest
             ELSE rest

\* detect_fuel_nodes on one call: [] without a page, when the screenshot
\* call raises or its bytes do not decode.
FuelNodesOf(shot) ==
    IF ~shot.page \/ shot.raises \/ ~shot.decodes THEN <<>>
    ELSE FirstN(SortDescending(FuelNodeItems(shot.contours, shot.img), "estimated_value"), 10)

\* detect_equipment_visually on one call.
EquipmentOf(shot) ==
    IF ~shot.page \/ shot.raises \/ ~shot.decodes THEN <<>>
    ELSE FirstN(SortDescending(EquipmentItems(shot.contours, shot.img), "area"), 8)

----------------------------------------------------------------------------
(* fast_collect_fuel_from_nodes *)

NodeClick(node) == [call |-> "click", x |-> node.x, y |-> node.y, fuel |-> 0]

FuelSample(f) == [call |-> "detect_fuel_level", x |-> 0, y |-> 0, fuel |-> f]

\* A faulty collection: every node is clicked and the gauge is never read.
RECURSIVE CollectEveryNode(_, _, _)
CollectEveryNode(fuel_nodes, readings, raises_at) ==
    IF fuel_nodes = <<>> THEN <<>>
    ELSE <<NodeClick(Head(fuel_nodes))>> \o CollectEveryNode(Tail(fuel_nodes), readings, raises_at)

\* The for loop from index i on: the click on the node, which raises at
\* the raises_at-th node (the exception ends the collection), and after the
\* nodes of odd index a fuel sample, the next of readings, with a break
\* when it is at or above safe_threshold.
RECURSIVE FastCollectFrom(_, _, _, _)
FastCollectFrom(nodes, i, readings, raises_at) ==
    IF nodes = <<>> \/ i + 1 = raises_at THEN <<>>
    ELSE IF i % 2 = 1
    THEN LET current_fuel == Head(readings)
         IN  <<NodeClick(Head(nodes)), FuelSample(current_fuel)>>
                 \o (IF current_fuel >= safe_threshold THEN <<>>
                     ELSE FastCollectFrom(Tail(nodes), i + 1, Tail(readings), raises_at))
    ELSE <<NodeClick(Head(nodes))>> \o FastCollectFrom(Tail(nodes), i + 1, readings, raises_at)

\* fast_collect_fuel_from_nodes: the clicks and fuel samples it makes, in
\* order, on fuel_nodes[:5].
fast_collect_fuel_from_nodes(fuel_nodes, readings, raises_at) ==
    FastCollectFrom(FirstN(fuel_nodes, 5), 0, readings, raises_at)

\* The for loop of collect_fuel_from_nodes from the i-th node on: a fuel
\* sample, the i-th of readings, before every click, with a break when it is
\* at or above safe_threshold; the click raises at the raises_at-th node.
RECURSIVE CollectFrom(_, _, _, _)
CollectFrom(nodes, i, readings, raises_at) ==
    IF nodes = <<>> THEN <<>>
    ELSE LET current_fuel == readings[i]
         IN  IF current_fuel >= safe_threshold \/ i = raises_at
             THEN <<FuelSample(current_fuel)>>
             ELSE <<FuelSample(current_fuel), NodeClick(Head(nodes))>>
                      \o CollectFrom(Tail(nodes), i + 1, readings, raises_at)

\* A faulty collection: the gauge is read after the click.
RECURSIVE ClickThenSample(_, _, _)
ClickThenSample(fuel_nodes, readings, raises_at) ==
    IF fuel_nodes = <<>> THEN <<>>
    ELSE <<NodeClick(Head(fuel_nodes)), FuelSample(Head(readings))>>
             \o (IF Head(readings) >= safe_threshold THEN <<>>
                 ELSE ClickThenSample(Tail(fuel_nodes), Tail(readings), raises_at))

\* collect_fuel_from_nodes: the fuel samples and clicks it makes, in order.
collect_fuel_from_nodes(fuel_nodes, readings, raises_at) ==
    CollectFrom(fuel_nodes, 1, readings, raises_at)

----------------------------------------------------------------------------
(* The death detector: detect_death *)

(* A text is a sequence of characters. *)
UpperCase == <<"A", "B", "C", "D", "E", "F", "G", "H", "I", "J", "K", "L", "M">>
                 \o <<"N", "O", "P", "Q", "R", "S", "T", "U", "V", "W", "X", "Y", "Z">>
LowerCase == <<"a", "b", "c", "d", "e", "f", "g", "h", "i", "j", "k", "l", "m">>
                 \o <<"n", "o", "p", "q", "r", "s", "t", "u", "v", "w", "x", "y", "z">>

\* str.lower()
lower(text) ==
    [i \in 1..Len(text) |->
        IF \E k \in 1..Len(UpperCase) : UpperCase[k] = text[i]
        THEN LowerCase[CHOOSE k \in 1..Len(UpperCase) : UpperCase[k] = text[i]]
        ELSE text[i]]

\* indicator in text
Contains(text, indicator) ==
    \E i \in 0..(Len(text) - Len(indicator)) : SubSeq(text, i + 1, i + Len(indicator)) = indicator

death_indicators ==
    <<<<"y", "o", "u", " ", "h", "a", "v", "e", " ", "b", "e", "e", "n", " ", "d", "e", "s", "t", "r", "o", "y", "e", "d">>,
      <<"y", "o", "u", " ", "d", "i", "e", "d">>,
      <<"g", "a", "m", "e", " ", "o", "v", "e", "r">>,
      <<"d", "e", "s", "t", "r", "o", "y", "e", "d">>,
      <<"r", "e", "s", "p", "a", "w", "n">>,
      <<"p", "r", "e", "s", "s", " ", "a", "n", "y", " ", "k", "e", "y">>,
      <<"c", "l", "i", "c", "k", " ", "t", "o", " ", "c", "o", "n", "t", "i", "n", "u", "e">>>>

\* Method 1: some indicator occurs in the lower-cased page content.
DeathText(shot) ==
    \E k \in 1..Len(death_indicators) : Contains(lower(shot.content), death_indicators[k])

\* Method 2: mean_brightness < 30
DarkScreen(shot) == shot.mean_brightness < 30

\* Method 3 of the first definition: mean_red > 150
RedTint(shot) == shot.mean_red > 150

\* The two definitions of detect_death in the class body, by the signals
\* they test once screenshot and content are read.  The later definition
\* replaces the earlier one: it is the method the loop calls.
DeathFirst(shot) == DeathText(shot) \/ DarkScreen(shot) \/ RedTint(shot)
DeathSecond(shot) == DeathText(shot) \/ DarkScreen(shot)
DeathSignals(shot) == DeathSecond(shot)

\* detect_death on one call: False without a page, when the screenshot call
\* raises, when its bytes do not decode and when page.content() raises.
IsDeadOf(shot) ==
    IF ~shot.page THEN FALSE
    ELSE IF shot.raises THEN FALSE
    ELSE IF ~shot.decodes THEN FALSE
    ELSE IF shot.content_raises THEN FALSE
    ELSE DeathSignals(shot)

----------------------------------------------------------------------------
(* Specifications *)

InitialBotState == [running |-> FALSE, status |-> "idle", current_fuel |-> 0,
                    shields_active |-> FALSE, settings |-> DefaultSettings]

\* The fuel readings the gauge can show: the three default thresholds and
\* the no-gauge default, which lies between them.
FuelReadings == {10, 25, 50, 85}

\* The environment of the main specification: one control-loop task at a
\* time, every sensor reading, transient failures.
FullEnv == [slots |-> 1, fuels |-> FuelReadings, deads |-> BOOLEAN, nodes |-> {0, 1},
            equips |-> {0, 1}, enters |-> BOOLEAN, images |-> BOOLEAN, flaky |-> TRUE,
            logins |-> BOOLEAN, trace |-> FALSE, broken |-> FALSE]

\* No function is looked at on its own.
NoProbe == [calls |-> <<>>, outs |-> <<>>]

InitWith(e) ==
    /\ running = FALSE
    /\ bot_state = InitialBotState
    /\ page = "none"
    /\ browser = "none"
    /\ tasks = [t \in TaskIds |-> NoTask]
    /\ stopper = "idle"
    /\ acts = NoActs
    /\ env = e
    /\ probe = NoProbe

Init == InitWith(FullEnv)

\* The tank is destroyed and stays so: from now on the death screen is what
\* the detector sees.
Die ==
    /\ env.deads = BOOLEAN
    /\ env' = [env EXCEPT !.deads = {TRUE}]
    /\ acts' = NoActs
    /\ UNCHANGED <<running, bot_state, page, browser, tasks, stopper, probe>>

TaskNext(t) ==
    \/ RunEnter(t) \/ RunLoop(t) \/ RunSample(t) \/ RunDecide(t) \/ RunSleep(t)
    \/ JoinStart(t) \/ JoinEquip(t)
    \/ CollectStart(t) \/ CollectAfter(t)
    \/ SearchStart(t) \/ SearchAttempt(t) \/ SearchExit(t) \/ SearchExhausted(t)
    \/ OverviewStart(t) \/ OverviewAfter(t)
    \/ LandingStart(t) \/ LandingEquip(t)
    \/ DeathStart(t) \/ DeathAfter(t)
    \/ FuelStart(t) \/ FuelSearched(t) \/ FuelTeleported(t) \/ FuelRetried(t)
    \/ SafeMode(t)
    \/ BalancedStart(t) \/ BalancedExplore(t) \/ BalancedCollect(t)

\* The main specification: start and login commands and the control loop,
\* with no stop command.
Next == (\E t \in TaskIds : TaskNext(t)) \/ StartBot \/ Login

Spec == Init /\ [][Next]_vars

\* The stop specification: start, stop and login commands in every
\* interleaving with up to two control-loop tasks, on a quiet map (a full
\* gauge, nothing detected, no death): the loop joins and then stays in the
\* safe mode.
QuietEnv == [slots |-> MaxTasks, fuels |-> {85}, deads |-> {FALSE}, nodes |-> {0},
             equips |-> {0}, enters |-> {TRUE}, images |-> {TRUE}, flaky |-> FALSE,
             logins |-> {TRUE}, trace |-> FALSE, broken |-> FALSE]

InitStop == InitWith(QuietEnv)

TaskNextStop(t) ==
    \/ RunEnter(t) \/ RunLoop(t) \/ RunSample(t) \/ RunDecide(t) \/ RunSleep(t)
    \/ JoinStart(t) \/ JoinEquip(t)
    \/ CollectStart(t) \/ CollectAfter(t)
    \/ SearchStart(t)
    \/ SafeMode(t)

NextStop == \/ \E t \in TaskIds : TaskNextStop(t)
            \/ StartBot \/ Login
            \/ StopCall \/ StopQuit \/ StopPageClose \/ StopBrowserClose

SpecStop == InitStop /\ [][NextStop]_vars

\* POST /bot/settings: update_settings replaces the thresholds in place, at
\* any moment.
SettingsValues == {DefaultSettings,
                   [shield_threshold |-> 10, refuel_threshold |-> 50, safe_threshold |-> 50]}

UpdateSettings ==
    /\ \E new \in SettingsValues \ {bot_state.settings} :
          bot_state' = [bot_state EXCEPT !.settings = new]
    /\ acts' = NoActs
    /\ UNCHANGED <<running, page, browser, tasks, stopper, env, probe>>

\* The page stops answering and stays so: from now on every call on it
\* raises.
Crash ==
    /\ page = "open"
    /\ ~env.broken
    /\ env' = [env EXCEPT !.broken = TRUE]
    /\ acts' = NoActs
    /\ UNCHANGED <<running, bot_state, page, browser, tasks, stopper, probe>>

\* The death specification: one control-loop task on an opened page, and a
\* tank that can be destroyed at any moment and then stays destroyed.  The
\* event loop runs a task whenever it can take a step, and every browser
\* call returns.
MortalEnv == [slots |-> 1, fuels |-> {25, 50, 85}, deads |-> BOOLEAN, nodes |-> {0, 1},
              equips |-> {0}, enters |-> {TRUE}, images |-> BOOLEAN, flaky |-> FALSE,
              logins |-> {TRUE}, trace |-> FALSE, broken |-> FALSE]

InitDead == InitWith(MortalEnv)

NextDead == (\E t \in TaskIds : TaskNext(t)) \/ StartBot \/ Login \/ Die

SpecDead == InitDead /\ [][NextDead]_vars /\ WF_vars(\E t \in TaskIds : TaskNext(t))

\* The crash specification: one control-loop task on an opened page that
\* can stop answering at any moment, under the same scheduling.
InitBroken == InitWith(MortalEnv)

NextBroken == (\E t \in TaskIds : TaskNext(t)) \/ StartBot \/ Login \/ Crash

SpecBroken == InitBroken /\ [][NextBroken]_vars /\ WF_vars(\E t \in TaskIds : TaskNext(t))

\* The settings specification: one control-loop task on an opened page,
\* and settings updates arriving at any moment.
InitSettings == InitWith(MortalEnv)

NextSettings == (\E t \in TaskIds : TaskNext(t)) \/ StartBot \/ Login \/ UpdateSettings

SpecSettings == InitSettings /\ [][NextSettings]_vars

\* The sampler specification: detect_fuel_level taken on its own, called
\* three times in a row: on a screenshot, on another one, and on the first
\* one again.  The bot is not started.
ImageWidth == 100
ImageHeight == 20

Black == <<10, 10, 10>>
Yellow == <<100, 150, 200>>
Green == <<0, 200, 0>>
Red == <<0, 0, 200>>
White == <<255, 255, 255>>
Gray == <<60, 60, 60>>
Olive == <<0, 60, 60>>

Palette == {Black, Yellow, Green, Red, White, Gray, Olive}

Splits == {0, 1, ImageWidth \div 4, ImageWidth \div 2, (3 * ImageWidth) \div 4, ImageWidth}

Image(left, right, split) ==
    [height |-> ImageHeight, width |-> ImageWidth, left |-> left, right |-> right, split |-> split]

Shot(img) == [page |-> TRUE, raises |-> FALSE, decodes |-> TRUE, img |-> img]

NoPageShot == [Shot(Image(Black, Black, 0)) EXCEPT !.page = FALSE]
RaisingShot == [Shot(Image(Black, Black, 0)) EXCEPT !.raises = TRUE]
GarbageShot == [Shot(Image(Black, Black, 0)) EXCEPT !.decodes = FALSE]

FuelShots ==
    {Shot(Image(l, r, k)) : l \in Palette, r \in Palette, k \in Splits}
        \cup {NoPageShot, RaisingShot, GarbageShot}

OtherShots ==
    {Shot(Image(Yellow, Black, ImageWidth \div 2)), Shot(Image(Black, Black, 0)),
     Shot(Image(White, White, 0)), NoPageShot}

InitFuel ==
    /\ running = FALSE
    /\ bot_state = InitialBotState
    /\ page = "none"
    /\ browser = "none"
    /\ tasks = [t \in TaskIds |-> NoTask]
    /\ stopper = "idle"
    /\ acts = NoActs
    /\ env = QuietEnv
    /\ \E a \in FuelShots, b \in OtherShots : probe = [calls |-> <<a, b, a>>, outs |-> <<>>]

\* The next call of the sampler returns.
SampleFuel ==
    /\ Len(probe.outs) < Len(probe.calls)
    /\ probe' = [probe EXCEPT !.outs = Append(@, FuelLevelOf(probe.calls[Len(probe.outs) + 1]))]
    /\ UNCHANGED <<running, bot_state, page, browser, tasks, stopper, acts, env>>

NextFuel == SampleFuel

SpecFuel == InitFuel /\ [][NextFuel]_vars

\* The moves specification: one move taken on its own, on a screenshot of
\* any of the sizes below, some of them smaller than twice a margin.
ScreenWidths == {40, 80, 100, 120}
ScreenHeights == {20, 50, 100, 120}

InitMoves ==
    /\ running = FALSE
    /\ bot_state = InitialBotState
    /\ page = "none"
    /\ browser = "none"
    /\ tasks = [t \in TaskIds |-> NoTask]
    /\ stopper = "idle"
    /\ acts = NoActs
    /\ env = QuietEnv
    /\ \E w \in ScreenWidths, h \in ScreenHeights, p \in BOOLEAN :
          probe = [calls |-> <<[page |-> p, raises |-> FALSE, decodes |-> TRUE,
                                img |-> [width |-> w, height |-> h]]>>,
                   outs |-> <<>>]

\* A move that does not test self.page.
MoveOutcomesBlind(shot, clicks) == IF clicks = {} THEN {NoClick} ELSE clicks

\* What a move returns with: no click without a page, when the screenshot
\* call raises, when its bytes do not decode and when random.randint raises;
\* else one of the clicks it can make.
MoveOutcomes(shot, clicks) ==
    IF ~shot.page \/ shot.raises \/ ~shot.decodes \/ clicks = {} THEN {NoClick} ELSE clicks

EdgeMove ==
    /\ probe.calls # <<>>
    /\ probe.outs = <<>>
    /\ \E c \in MoveOutcomes(probe.calls[1], EdgeClicks(probe.calls[1].img)) :
          probe' = [probe EXCEPT !.outs = <<c>>]
    /\ UNCHANGED <<running, bot_state, page, browser, tasks, stopper, acts, env>>

ProximityMove ==
    /\ probe.calls # <<>>
    /\ probe.outs = <<>>
    /\ \E c \in MoveOutcomes(probe.calls[1], ProximityClicks(probe.calls[1].img)) :
          probe' = [probe EXCEPT !.outs = <<c>>]
    /\ UNCHANGED <<running, bot_state, page, browser, tasks, stopper, acts, env>>

NextMoves == EdgeMove \/ ProximityMove

SpecMoves == InitMoves /\ [][NextMoves]_vars

\* The detector specification: one detector taken on its own, on a
\* screenshot in which the library finds up to MaxContours contours.
MaxContours == 3

Viewport == [width |-> 1280, height |-> 720]

Contour(area, x, y, w, h, brightness) ==
    [area |-> area, x |-> x, y |-> y, w |-> w, h |-> h, brightness |-> brightness]

Contours ==
    {Contour(400, 100, 100, 20, 20, 200),    \* a large bright blob
     Contour(200, 300, 200, 15, 15, 50),     \* a smaller dark blob
     Contour(180, 500, 300, 14, 14, 200),    \* a still smaller bright blob
     Contour(90, 600, 400, 10, 10, 100),     \* large enough for a fuel node only
     Contour(60, 700, 500, 8, 8, 100),       \* too small
     Contour(400, 800, 300, 60, 10, 100),    \* too elongated
     Contour(400, 45, 45, 20, 20, 100),      \* within 50 px of the edge, not within 40
     Contour(400, 1215, 655, 20, 20, 100)}   \* the same at the opposite corner

RECURSIVE SeqsUpTo(_, _)
SeqsUpTo(S, n) ==
    IF n = 0 THEN {<<>>}
    ELSE LET shorter == SeqsUpTo(S, n - 1)
         IN  shorter \cup {Append(q, x) : q \in {r \in shorter : Len(r) = n - 1}, x \in S}

Seen(contours) ==
    [page |-> TRUE, raises |-> FALSE, decodes |-> TRUE, img |-> Viewport, contours |-> contours]

DetectorShots ==
    {Seen(cs) : cs \in SeqsUpTo(Contours, MaxContours)}
        \cup {[Seen(<<Contour(400, 100, 100, 20, 20, 200)>>) EXCEPT !.page = FALSE],
              [Seen(<<Contour(400, 100, 100, 20, 20, 200)>>) EXCEPT !.raises = TRUE],
              [Seen(<<Contour(400, 100, 100, 20, 20, 200)>>) EXCEPT !.decodes = FALSE]}

InitDetect ==
    /\ running = FALSE
    /\ bot_state = InitialBotState
    /\ page = "none"
    /\ browser = "none"
    /\ tasks = [t \in TaskIds |-> NoTask]
    /\ stopper = "idle"
    /\ acts = NoActs
    /\ env = QuietEnv
    /\ \E shot \in DetectorShots : probe = [calls |-> <<shot>>, outs |-> <<>>]

DetectFuelNodes ==
    /\ probe.calls # <<>>
    /\ probe.outs = <<>>
    /\ probe' = [probe EXCEPT !.outs = <<[kind |-> "fuel", items |-> FuelNodesOf(probe.calls[1])]>>]
    /\ UNCHANGED <<running, bot_state, page, browser, tasks, stopper, acts, env>>

DetectEquipment ==
    /\ probe.calls # <<>>
    /\ probe.outs = <<>>
    /\ probe' = [probe EXCEPT !.outs = <<[kind |-> "equipment", items |-> EquipmentOf(probe.calls[1])]>>]
    /\ UNCHANGED <<running, bot_state, page, browser, tasks, stopper, acts, env>>

NextDetect == DetectFuelNodes \/ DetectEquipment

SpecDetect == InitDetect /\ [][NextDetect]_vars

\* The death-detector specification: detect_death taken on its own, on
\* any of the page contents and screens below, with every page call able to
\* fail.
PageContents ==
    {<<"F", "u", "e", "l", " ", "5", "0">>,
     <<"R", "E", "S", "P", "A", "W", "N", " ", "i", "n", " ", "5">>,
     <<"Y", "o", "u", " ", "D", "i", "e", "d">>,
     <<"U", "n", "d", "e", "s", "t", "r", "o", "y", "e", "d">>,
     <<"G", "a", "m", "e", " ", " ", "O", "v", "e", "r">>,
     <<>>}

\* Mean grayscale brightness and mean red level of a screen; the gray level
\* of a pixel is at least 0.299 times its red level.
Screens ==
    {[mean_brightness |-> 0, mean_red |-> 0], [mean_brightness |-> 29, mean_red |-> 90],
     [mean_brightness |-> 30, mean_red |-> 100], [mean_brightness |-> 120, mean_red |-> 100],
     [mean_brightness |-> 120, mean_red |-> 200]}

DeathShots ==
    {[page |-> p, raises |-> r, decodes |-> d, content_raises |-> cr, content |-> t,
      mean_brightness |-> sc.mean_brightness, mean_red |-> sc.mean_red] :
        p \in BOOLEAN, r \in BOOLEAN, d \in BOOLEAN, cr \in BOOLEAN,
        t \in PageContents, sc \in Screens}

InitDeathDetector ==
    /\ running = FALSE
    /\ bot_state = InitialBotState
    /\ page = "none"
    /\ browser = "none"
    /\ tasks = [t \in TaskIds |-> NoTask]
    /\ stopper = "idle"
    /\ acts = NoActs
    /\ env = QuietEnv
    /\ \E shot \in DeathShots : probe = [calls |-> <<shot>>, outs |-> <<>>]

DetectDeath ==
    /\ probe.outs = <<>>
    /\ probe' = [probe EXCEPT !.outs = <<IsDeadOf(probe.calls[1])>>]
    /\ UNCHANGED <<running, bot_state, page, browser, tasks, stopper, acts, env>>

NextDeathDetector == DetectDeath

SpecDeathDetector == InitDeathDetector /\ [][NextDeathDetector]_vars

\* The direct-call specification: one core operation called on its own, as
\* the tests call them, with or without a page: a sequence or the persistent
\* search as the only frame of a task, or a detector or a move on one
\* screenshot.  Nothing runs the control loop.
DirectOps == {"persistent_fuel_and_equipment_search", "execute_fuel_priority_sequence",
              "execute_balanced_sequence"}

InitDirect ==
    /\ running = FALSE
    /\ bot_state = InitialBotState
    /\ page \in {"none", "open"}
    /\ browser = page
    /\ stopper = "idle"
    /\ acts = NoActs
    /\ env = MortalEnv
    /\ \/ /\ \E fn \in DirectOps :
                tasks = [t \in TaskIds |-> IF t = 1 THEN [NoTask EXCEPT !.stack = <<Frame(fn)>>]
                                                   ELSE NoTask]
          /\ probe = NoProbe
       \/ /\ tasks = [t \in TaskIds |-> NoTask]
          /\ \E cs \in SeqsUpTo(Contours, 1) :
                probe = [calls |-> <<[Seen(cs) EXCEPT !.page = (page = "open")]>>, outs |-> <<>>]

DirectNext(t) ==
    \/ CollectStart(t) \/ CollectAfter(t)
    \/ SearchStart(t) \/ SearchAttempt(t) \/ SearchExit(t) \/ SearchExhausted(t)
    \/ OverviewStart(t) \/ OverviewAfter(t)
    \/ LandingStart(t) \/ LandingEquip(t)
    \/ FuelStart(t) \/ FuelSearched(t) \/ FuelTeleported(t) \/ FuelRetried(t)
    \/ BalancedStart(t) \/ BalancedExplore(t) \/ BalancedCollect(t)

NextDirect == \/ \E t \in TaskIds : DirectNext(t)
              \/ DetectFuelNodes \/ DetectEquipment \/ EdgeMove \/ ProximityMove

SpecDirect == InitDirect /\ [][NextDirect]_vars

\* The collection specification: detect_fuel_nodes on a screenshot with up
\* to seven blobs, then fast_collect_fuel_from_nodes on the nodes returned,
\* with the two gauge readings the collection can ask for and a click that
\* may raise.
Field ==
    <<Contour(200, 300, 200, 15, 15, 50), Contour(400, 100, 100, 20, 20, 200),
      Contour(90, 600, 400, 10, 10, 100), Contour(1000, 900, 500, 30, 30, 100),
      Contour(600, 200, 600, 25, 25, 100), Contour(2000, 1000, 200, 40, 40, 250),
      Contour(180, 500, 300, 14, 14, 200)>>

Reverse(q) == [i \in 1 .. Len(q) |-> q[Len(q) + 1 - i]]

Windows(q) == {SubSeq(q, i, j) : i \in 1 .. Len(q), j \in 0 .. Len(q)}

CollectionReadings == {<<a, b>> : a \in {25, 85}, b \in {25, 85}}

InitCollect ==
    /\ running = FALSE
    /\ bot_state = InitialBotState
    /\ page = "none"
    /\ browser = "none"
    /\ tasks = [t \in TaskIds |-> NoTask]
    /\ stopper = "idle"
    /\ acts = NoActs
    /\ env = QuietEnv
    /\ \E cs \in Windows(Field) \cup Windows(Reverse(Field)),
          rs \in CollectionReadings, k \in 0 .. 5 :
          probe = [calls |-> <<[page |-> TRUE, raises |-> FALSE, decodes |-> TRUE,
                                img |-> Viewport, contours |-> cs, readings |-> rs,
                                raises_at |-> k]>>,
                   outs |-> <<>>]

\* The search collects when the detector returned nodes.
CollectFuel ==
    /\ Len(probe.outs) = 1
    /\ probe.outs[1].kind = "fuel"
    /\ probe.outs[1].items # <<>>
    /\ probe' = [probe EXCEPT !.outs = Append(@,
                    [kind |-> "collected",
                     items |-> fast_collect_fuel_from_nodes(probe.outs[1].items,
                                                            probe.calls[1].readings,
                                                            probe.calls[1].raises_at)])]
    /\ UNCHANGED <<running, bot_state, page, browser, tasks, stopper, acts, env>>

NextCollect == DetectFuelNodes \/ CollectFuel

SpecCollect == InitCollect /\ [][NextCollect]_vars

\* The search specification: persistent_fuel_and_equipment_search called on
\* its own on an open page, with every call of each step recorded in order.
\* The gauge is low or safe, the detectors see up to five nodes and up to
\* one item.
SearchEnv == [slots |-> 1, fuels |-> {25, 85}, deads |-> {FALSE}, nodes |-> {0, 1, 2, 5},
              equips |-> {0, 1}, enters |-> {TRUE}, images |-> {TRUE}, flaky |-> FALSE,
              logins |-> {TRUE}, trace |-> TRUE, broken |-> FALSE]

InitSearch ==
    /\ running = FALSE
    /\ bot_state = InitialBotState
    /\ page = "open"
    /\ browser = "open"
    /\ stopper = "idle"
    /\ acts = NoActs
    /\ env = SearchEnv
    /\ tasks = [t \in TaskIds |->
                  IF t = 1
                  THEN [NoTask EXCEPT !.stack = <<Frame("persistent_fuel_and_equipment_search")>>]
                  ELSE NoTask]
    /\ probe = NoProbe

SearchNext(t) ==
    \/ CollectStart(t) \/ CollectAfter(t)
    \/ SearchStart(t) \/ SearchAttempt(t) \/ SearchExit(t) \/ SearchExhausted(t)
    \/ OverviewStart(t) \/ OverviewAfter(t)
    \/ LandingStart(t) \/ LandingEquip(t)

NextSearch == \E t \in TaskIds : SearchNext(t)

SpecSearch == InitSearch /\ [][NextSearch]_vars

\* The respawn specification: handle_death_and_respawn called on its own on
\* an open page, with every call of each step recorded in order.  The
\* screenshot of the overview map may fail to decode.
RespawnEnv == [slots |-> 1, fuels |-> {25, 85}, deads |-> {FALSE}, nodes |-> {0, 1},
               equips |-> {0, 1}, enters |-> {TRUE}, images |-> BOOLEAN, flaky |-> FALSE,
               logins |-> {TRUE}, trace |-> TRUE, broken |-> FALSE]

InitRespawn ==
    /\ running = FALSE
    /\ bot_state = InitialBotState
    /\ page = "open"
    /\ browser = "open"
    /\ stopper = "idle"
    /\ acts = NoActs
    /\ env = RespawnEnv
    /\ tasks = [t \in TaskIds |->
                  IF t = 1
                  THEN [NoTask EXCEPT !.stack = <<Frame("handle_death_and_respawn")>>]
                  ELSE NoTask]
    /\ probe = NoProbe

NextRespawn == \E t \in TaskIds : DeathStart(t) \/ DeathAfter(t) \/ SearchNext(t)

SpecRespawn == InitRespawn /\ [][NextRespawn]_vars

\* The shield specification: the control loop on an opened page whose gauge
\* reads critical or safe, with nothing to detect, and with every key and
\* click of each step recorded in order.
ShieldEnv == [slots |-> 1, fuels |-> {10, 85}, deads |-> {FALSE}, nodes |-> {0},
              equips |-> {0}, enters |-> {TRUE}, images |-> {TRUE}, flaky |-> FALSE,
              logins |-> {TRUE}, trace |-> TRUE, broken |-> FALSE]

InitShield == InitWith(ShieldEnv)

ShieldNext(t) ==
    \/ RunEnter(t) \/ RunLoop(t) \/ RunSample(t) \/ RunDecide(t) \/ RunSleep(t)
    \/ JoinStart(t) \/ JoinEquip(t)
    \/ FuelStart(t) \/ FuelSearched(t) \/ FuelTeleported(t) \/ FuelRetried(t)
    \/ SafeMode(t)
    \/ SearchNext(t)

NextShield == (\E t \in TaskIds : ShieldNext(t)) \/ StartBot \/ Login

SpecShield == InitShield /\ [][NextShield]_vars

\* The crowded specification: one detector taken on its own, on a
\* screenshot showing some of twelve blobs that pass both filters, found in
\* either direction.
Crowd == [i \in 1 .. 12 |->
            Contour(150 + ((7 * i) % 12) * 100, 60 + 90 * i, 100 + 40 * i, 20, 20, (i % 3) * 100)]

InitCrowd ==
    /\ running = FALSE
    /\ bot_state = InitialBotState
    /\ page = "none"
    /\ browser = "none"
    /\ tasks = [t \in TaskIds |-> NoTask]
    /\ stopper = "idle"
    /\ acts = NoActs
    /\ env = QuietEnv
    /\ \E cs \in Windows(Crowd) \cup Windows(Reverse(Crowd)) :
          probe = [calls |-> <<Seen(cs)>>, outs |-> <<>>]

SpecCrowd == InitCrowd /\ [][NextDetect]_vars

\* The balanced specification: execute_balanced_sequence called on its own
\* on an open page, with every key and click of each step recorded in
\* order; and, taken on their own, detect_fuel_nodes followed by the
\* collection the sequence makes of its result.
BalancedEnv == [slots |-> 1, fuels |-> {50, 85}, deads |-> {FALSE}, nodes |-> {0, 1, 3},
                equips |-> {0, 1}, enters |-> {TRUE}, images |-> {TRUE}, flaky |-> FALSE,
                logins |-> {TRUE}, trace |-> TRUE, broken |-> FALSE]

InitBalanced ==
    /\ running = FALSE
    /\ bot_state = InitialBotState
    /\ page = "open"
    /\ browser = "open"
    /\ stopper = "idle"
    /\ acts = NoActs
    /\ env = BalancedEnv
    /\ \/ /\ tasks = [t \in TaskIds |->
                        IF t = 1 THEN [NoTask EXCEPT !.stack = <<Frame("execute_balanced_sequence")>>]
                        ELSE NoTask]
          /\ probe = NoProbe
       \/ /\ tasks = [t \in TaskIds |-> NoTask]
          /\ \E cs \in Windows(Field) \cup Windows(Reverse(Field)),
                rs \in CollectionReadings, k \in 0 .. 2 :
                probe = [calls |-> <<[page |-> TRUE, raises |-> FALSE, decodes |-> TRUE,
                                      img |-> Viewport, contours |-> cs, readings |-> rs,
                                      raises_at |-> k]>>,
                         outs |-> <<>>]

\* The sequence collects from the first two of the nodes the detector
\* returned.
BalancedCollectFuel ==
    /\ Len(probe.outs) = 1
    /\ probe.outs[1].kind = "fuel"
    /\ probe.outs[1].items # <<>>
    /\ probe' = [probe EXCEPT !.outs = Append(@,
                    [kind |-> "balanced",
                     items |-> collect_fuel_from_nodes(FirstN(probe.outs[1].items, 2),
                                                       probe.calls[1].readings,
                                                       probe.calls[1].raises_at)])]
    /\ UNCHANGED <<running, bot_state, page, browser, tasks, stopper, acts, env>>

BalancedNext(t) == BalancedStart(t) \/ BalancedExplore(t) \/ BalancedCollect(t)

NextBalanced == (\E t \in TaskIds : BalancedNext(t)) \/ DetectFuelNodes \/ BalancedCollectFuel

SpecBalanced == InitBalanced /\ [][NextBalanced]_vars

----------------------------------------------------------------------------
(* Properties of the tick *)

\* The frame of run_bot_cycle, the bottom of a task's stack.
RunFrame(t) == Stack(t)[1]

OnStack(t, fn) == \E i \in 1 .. Depth(t) : Stack(t)[i].fn = fn

\* The sequence of task t's tick is the one its stored fuel sample selects.
SequenceChosen(t) ==
    LET f == bot_state.current_fuel
        seq == tasks[t].tick.seq
    IN  /\ f <= refuel_threshold => seq = "execute_fuel_priority_sequence"
        /\ (f > refuel_threshold /\ f >= safe_threshold) => seq = "execute_safe_mode_sequence"
        /\ (f > refuel_threshold /\ f < safe_threshold) => seq = "execute_balanced_sequence"

\* C1: in a tick in which detect_death returned true, death handling runs
\* (it is on the stack, or it has just returned to the head of the loop) and
\* nothing of the fuel-threshold logic runs: no fuel sample is stored, no
\* shield action is issued and no sequence is executed.
DeathPreempts ==
    \A t \in TaskIds :
        (Alive(t) /\ tasks[t].tick.death) =>
            /\ \/ OnStack(t, "handle_death_and_respawn")
               \/ /\ At(t, "run_bot_cycle", "loop")
                  /\ tasks[t].ret.fn = "handle_death_and_respawn"
            /\ ~tasks[t].tick.stored
            /\ ~tasks[t].tick.shield
            /\ tasks[t].tick.nseq = 0

\* A death tick whose death handling has returned to the loop.
DeathTickDone ==
    \E t \in TaskIds : /\ tasks[t].tick.death
                        /\ At(t, "run_bot_cycle", "loop")
                        /\ tasks[t].ret.fn = "handle_death_and_respawn"

\* C3: a tick without death that reached the end of the iteration has, with
\* a usable page, executed exactly one sequence, the one its fuel sample
\* selects (fuel priority at or below refuel_threshold, else safe mode at or
\* above safe_threshold, else balanced); without a page it has executed none.
OneSequenceByFuel ==
    \A t \in TaskIds :
        (Alive(t) /\ ~tasks[t].tick.death /\ RunFrame(t).pc = "sleep") =>
            /\ tasks[t].tick.stored
            /\ IF tasks[t].tick.usable
               THEN /\ tasks[t].tick.nseq = 1
                    /\ SequenceChosen(t)
                    /\ Depth(t) >= 2 => Stack(t)[2].fn = tasks[t].tick.seq
               ELSE tasks[t].tick.nseq = 0 /\ Depth(t) = 1

\* A tick whose fuel sample is on the refuel threshold, after its
\* fuel-priority sequence returned.
BoundaryTickDone ==
    \E t \in TaskIds : /\ At(t, "run_bot_cycle", "sleep")
                        /\ tasks[t].tick.usable
                        /\ bot_state.current_fuel = bot_state.settings.refuel_threshold
                        /\ tasks[t].ret.fn = "execute_fuel_priority_sequence"

----------------------------------------------------------------------------
(* Properties of the persistent search *)

IsSearch(fr) == fr.fn = "persistent_fuel_and_equipment_search"

\* The attempts made so far by the searches that are active on task t's
\* stack at position i or above it: the search at i, if there is one, and
\* everything it has called.
RECURSIVE AttemptsFrom(_, _)
AttemptsFrom(t, i) ==
    IF i > Depth(t) THEN 0
    ELSE (IF IsSearch(Stack(t)[i]) THEN Stack(t)[i].att ELSE 0) + AttemptsFrom(t, i + 1)

\* C5 as stated: an invocation of the persistent search, the work of its
\* exhaustion fallback included, makes at most max_search_attempts attempts.
SearchBound ==
    \A t \in TaskIds : \A i \in 1 .. Depth(t) :
        IsSearch(Stack(t)[i]) => AttemptsFrom(t, i) <= max_search_attempts

\* C6 as stated: the chain of persistent search, overview map, landing
\* sequence and collect_fuel_until_safe ends by itself: the nesting of
\* calls never grows up to the interpreter's limit.
RecursionEnds ==
    \A t \in TaskIds : Depth(t) < RecursionLimit

\* C7 as stated: a call of the fuel-priority sequence teleports at most
\* once.
TeleportOnce ==
    \A t \in TaskIds : \A i \in 1 .. Depth(t) :
        Stack(t)[i].fn = "execute_fuel_priority_sequence" => Stack(t)[i].tele <= 1

\* C8: when the persistent search has returned true, its last fuel sample
\* is at or above safe_threshold.
SearchTrueIsSafe ==
    \A t \in TaskIds :
        (IsSearch(tasks[t].ret) /\ tasks[t].ret.val) =>
            tasks[t].ret.fuel >= safe_threshold

\* A persistent search has returned true to the fuel-priority sequence.
SearchReturnedTrue ==
    \E t \in TaskIds : /\ IsSearch(tasks[t].ret)
                        /\ tasks[t].ret.val
                        /\ At(t, "execute_fuel_priority_sequence", "searched")

----------------------------------------------------------------------------
(* Properties of start and stop *)

\* C9 as stated: the control loop issues no click and no key press while
\* running is false.
NoActionAfterStop == ~(acts.by = "loop" /\ ~acts.run)

\* C10 as stated: at most one run_bot_cycle task is alive.
OneLoopTask == Cardinality({t \in TaskIds : Alive(t)}) <= 1

\* C11 as stated: once stop has completed with the status "stopped", the
\* published state is written again only by a start command (status
\* "starting") or by another stop command (status "stopping").
StoppedIsTerminal ==
    [][(bot_state.status = "stopped" /\ stopper = "idle")
          => \/ bot_state' = bot_state
             \/ bot_state'.status \in {"starting", "stopping"}]_vars

\* C12 as stated: when the page has stopped answering for good, a running
\* control loop eventually stops.
LoopStopsWhenUnusable ==
    \A t \in TaskIds : (Alive(t) /\ env.broken) ~> ~Alive(t)

----------------------------------------------------------------------------
(* Properties of failures *)

\* C13 as stated: the fuel-priority sequence escalates to the overview map
\* only after a search that returned from its exhaustion branch; a search
\* that a failed page call ended does not cause it.
FailureIsNotExhaustion ==
    [][\A t \in TaskIds :
          (/\ At(t, "execute_fuel_priority_sequence", "searched")
           /\ OnStack(t, "use_overview_map_for_fuel")')
              => tasks[t].ret.pc = "exhausted"]_vars

\* C14: a control-loop task ends only deliberately: from the failed entry
\* into the game or from the head of the loop, and with running false; no
\* failed call in a callee ends it.
LoopEndsDeliberately ==
    [][\A t \in TaskIds :
          (Alive(t) /\ ~Alive(t)')
              => /\ Depth(t) = 1
                 /\ RunFrame(t).pc \in {"start", "loop"}
                 /\ ~running']_vars

\* A failed key press in death handling was caught and the task is back at
\* the head of the loop.
FailureCaughtInTick ==
    \E t \in TaskIds : /\ At(t, "run_bot_cycle", "loop")
                        /\ tasks[t].ret.fn = "handle_death_and_respawn"
                        /\ bot_state.status = "death_handling_error"

----------------------------------------------------------------------------
(* Properties of the fuel sampler *)

\* The calls of the sampler that have returned.
Sampled == 1..Len(probe.outs)

\* C15: detect_fuel_level returns a number between 0 and 100, and never
\* None, on every path: without a page, when the screenshot raises or does
\* not decode, and when no area locates the gauge.
FuelAlwaysPercentage ==
    \A i \in Sampled : probe.outs[i] \in 0..100

\* A call on a screenshot on which every area measures None has returned,
\* and so has a call without a page.
FuelDefaulted ==
    \E i \in Sampled, j \in Sampled :
        /\ probe.calls[i] = Shot(Image(Olive, Olive, 0))
        /\ \A a \in 1..4 :
              measure_fuel_gauge_simple(probe.calls[i].img, GaugeAreas(probe.calls[i].img)[a]) = None
        /\ probe.outs[i] = DefaultFuel
        /\ ~probe.calls[j].page
        /\ probe.outs[j] = DefaultFuel

\* The screenshot of a call is a gauge: fuel-coloured pixels and empty ones.
IsGauge(shot) ==
    /\ shot.page /\ ~shot.raises /\ shot.decodes
    /\ shot.img.left \in {Yellow, Black}
    /\ shot.img.right \in {Yellow, Black}

\* The number of fuel-coloured columns of a gauge; every row is the same, so
\* the coloured fraction p of the image is this number over the width.
ColoredColumns(img) ==
    Cardinality({c \in 0 .. (img.width - 1) : PixelAt(img, c) = Yellow})

\* C16 as stated: when no tier yields a value, the sampler returns the value
\* it returned last, and 75 on its first call.
FuelFallsBackToLastKnown ==
    \A i \in Sampled :
        (\/ ~probe.calls[i].page
         \/ probe.calls[i].img = Image(Olive, Olive, 0))
            => probe.outs[i] = IF i = 1 THEN 75 ELSE probe.outs[i - 1]

\* C17 as stated: on a gauge with coloured fraction p the sampler returns a
\* percentage within 5 of p * 100; an all-black image gives 0 to 5.
FuelWithinFive ==
    \A i \in Sampled :
        IsGauge(probe.calls[i])
            => LET p100w == 100 * ColoredColumns(probe.calls[i].img)
                   outw  == probe.outs[i] * probe.calls[i].img.width
               IN  outw - p100w <= 5 * probe.calls[i].img.width
                      /\ p100w - outw <= 5 * probe.calls[i].img.width

----------------------------------------------------------------------------
(* Properties of the moves *)

\* The margin a move is to keep from the edges of the image.
MarginOf(fn) == IF fn = "edge" THEN margin ELSE proximity_margin

\* C19 as stated: every point clicked by the edge exploration or by the
\* proximity move lies inside the image shrunk by the margin of the move,
\* whatever the size of the image.
ClicksInsideMargins ==
    \A i \in 1..Len(probe.outs) :
        probe.outs[i].clicked
            => LET c == probe.outs[i]
                   m == MarginOf(c.fn)
               IN  /\ m <= c.x /\ c.x <= probe.calls[1].img.width - m
                   /\ m <= c.y /\ c.y <= probe.calls[1].img.height - m

\* C20 as stated: before clamping, the point clicked by the proximity move
\* is at most 12 pixels from the centre of the screen in each axis.
ProximityWithinTwelve ==
    \A i \in 1..Len(probe.outs) :
        (probe.outs[i].clicked /\ probe.outs[i].fn = "proximity")
            => Abs(probe.outs[i].offset_x) <= 12 /\ Abs(probe.outs[i].offset_y) <= 12

----------------------------------------------------------------------------
(* Properties of the detectors *)

NonIncreasing(values) ==
    \A i \in 1..(Len(values) - 1) : values[i] >= values[i + 1]

\* The mean brightness of the rectangle of an item in the screenshot of the call.
BrightnessOf(item) ==
    LET cs == probe.calls[1].contours
        i == CHOOSE j \in 1..Len(cs) :
                 cs[j].x + (cs[j].w \div 2) = item.x /\ cs[j].y + (cs[j].h \div 2) = item.y
    IN  cs[i].brightness

----------------------------------------------------------------------------
(* Properties of the death detector *)

\* The call read both the screenshot and the page content.
DeathInputsRead(shot) ==
    shot.page /\ ~shot.raises /\ shot.decodes /\ ~shot.content_raises

----------------------------------------------------------------------------
(* Properties of the shared state *)

\* The task takes a step from a place where it compares a fuel sample with
\* a threshold after the first comparison of its iteration: the sequence
\* selection, the loop condition of the persistent search, the entry test
\* of collect_fuel_until_safe.
ComparesAgain(t) ==
    /\ tasks'[t] # tasks[t]
    /\ tasks[t].tick.stored
    /\ \/ At(t, "run_bot_cycle", "decide")
       \/ At(t, "persistent_fuel_and_equipment_search", "loop")
       \/ At(t, "collect_fuel_until_safe", "start")

\* C23 as stated: every threshold comparison of an iteration reads the
\* settings that the first comparison of the iteration read.
SettingsFixedInTick ==
    [][\A t \in TaskIds :
          ComparesAgain(t) => bot_state.settings = tasks[t].tick.settings]_vars

\* C24 as stated: while the loop is running, every write to bot_state is
\* made by a step of a control-loop task.
OnlyLoopWrites ==
    [][(running /\ (\E t \in TaskIds : Alive(t)) /\ bot_state' # bot_state)
          => \E t \in TaskIds : tasks'[t] # tasks[t]]_vars

\* C25 as stated: whenever the published running flag is false, the
\* published status is idle, stopped, ready or no_browser_session.
IdleStatusWhenNotRunning ==
    ~bot_state.running
        => bot_state.status \in {"idle", "stopped", "ready", "no_browser_session"}

----------------------------------------------------------------------------
(* Properties of the operations without a page *)

\* C26: without a page, the persistent search and the fuel-priority and
\* balanced sequences return at their first step, to their caller and with
\* no browser action, the search returning false; the detectors return an
\* empty list and the moves return without a click.
NoPageDegrades ==
    [][/\ \A t \in TaskIds :
            (/\ page = "none"
             /\ \E fn \in DirectOps : At(t, fn, "start")
             /\ tasks'[t] # tasks[t])
                => /\ Len(tasks'[t].stack) = Depth(t) - 1
                   /\ tasks'[t].ret.fn = Top(t).fn
                   /\ tasks'[t].ret.val = FALSE
                   /\ acts' = NoActs
       /\ (probe'.outs # <<>> /\ ~probe'.calls[1].page)
            => IF "clicked" \in DOMAIN probe'.outs[1]
               THEN ~probe'.outs[1].clicked
               ELSE probe'.outs[1].items = <<>>]_vars

\* Without a page, a persistent search called on its own has returned false.
SearchDegraded ==
    /\ page = "none"
    /\ ~Alive(1)
    /\ tasks[1].ret.fn = "persistent_fuel_and_equipment_search"
    /\ tasks[1].ret.val = FALSE

----------------------------------------------------------------------------
(* Properties of the steps of the persistent search *)

\* C27 as stated: a persistent search whose last fuel sample is at or above
\* safe_threshold, the sample at the end of the last allowed attempt
\* included, returns true and does not call the overview map.
SafeSampleReturnsTrue ==
    [][\A t \in TaskIds :
          (/\ At(t, "persistent_fuel_and_equipment_search", "loop")
           /\ Top(t).fuel >= safe_threshold
           /\ tasks'[t] # tasks[t])
              => /\ Len(tasks'[t].stack) = Depth(t) - 1
                 /\ tasks'[t].ret.fn = "persistent_fuel_and_equipment_search"
                 /\ tasks'[t].ret.val]_vars

\* Task t runs one attempt of the search loop in this step.
AttemptOf(t) ==
    /\ At(t, "persistent_fuel_and_equipment_search", "loop")
    /\ SearchContinues(Top(t))
    /\ tasks'[t] # tasks[t]

TacticClicks == {"click_edge", "click_proximity"}

\* The positions of the calls tr at which one of the calls in kinds is made.
CallsOf(tr, kinds) == {p \in 1 .. Len(tr) : tr[p] \in kinds}

DetectedNothing(tr) ==
    /\ Len(tr) >= 3
    /\ tr[2] = Found("detect_fuel_nodes", 0)
    /\ tr[3] = Found("detect_equipment_visually", 0)

\* C28: attempt k of the persistent search, when both detectors return
\* nothing, performs exactly one exploration tactic, the screen edge if k is
\* a multiple of 3 and the proximity move otherwise; when a detector returns
\* something it performs none.
OneTacticByAttemptNumber ==
    [][\A t \in TaskIds : AttemptOf(t) =>
          LET k == Top(t).att + 1
              tr == acts'.keys
          IN  IF DetectedNothing(tr)
              THEN /\ Cardinality(CallsOf(tr, TacticClicks)) = 1
                   /\ IF k % 3 = 0
                      THEN /\ CallsOf(tr, {"click_edge"}) # {}
                           /\ bot_state'.status = "fast_edge_exploration"
                      ELSE /\ CallsOf(tr, {"click_proximity"}) # {}
                           /\ bot_state'.status = "searching_proximity"
              ELSE /\ Len(tr) >= 3
                   /\ CallsOf(tr, TacticClicks) = {}]_vars

\* The sixth attempt found nothing and went to the screen edge.
EdgeOnSixthAttempt ==
    \E t \in TaskIds :
        /\ At(t, "persistent_fuel_and_equipment_search", "loop")
        /\ Top(t).att = 6
        /\ DetectedNothing(acts.keys)
        /\ CallsOf(acts.keys, {"click_edge"}) # {}

DetectorCalls ==
    {Found(d, n) : d \in {"detect_fuel_nodes", "detect_equipment_visually"}, n \in 0 .. 5}
        \cup {"detect_equipment_visually"}

CollectionClicks == {"click_fuel", "click_equip"}

\* Every position of ps comes before every position of qs.
AllBefore(ps, qs) == \A p \in ps, q \in qs : p < q

\* The attempt of task t ends the search with success in this step.
SucceedsIn(t) ==
    /\ Len(tasks'[t].stack) = Depth(t) - 1
    /\ tasks'[t].ret.fn = "persistent_fuel_and_equipment_search"
    /\ tasks'[t].ret.val

\* C29: within an attempt of the persistent search the radar key is pressed
\* before any detector runs, every fuel-node click comes before every
\* equipment click, and a fuel sample is taken after the last collection
\* click, that sample being the one the success check compares.
AttemptStepsOrdered ==
    [][\A t \in TaskIds : AttemptOf(t) =>
          LET tr == acts'.keys IN
          /\ Len(tr) >= 3
          /\ tr[1] = "s"
          /\ AllBefore({1}, CallsOf(tr, DetectorCalls))
          /\ CallsOf(tr, DetectorCalls) # {}
          /\ AllBefore(CallsOf(tr, {"click_fuel"}), CallsOf(tr, {"click_equip"}))
          /\ ~DetectedNothing(tr) =>
                \E p \in CallsOf(tr, {"detect_fuel_level"}) :
                    /\ AllBefore(CallsOf(tr, CollectionClicks), {p})
                    /\ AllBefore(CallsOf(tr, DetectorCalls), {p})
          /\ SucceedsIn(t) =>
                /\ tr[Len(tr)] = "detect_fuel_level"
                /\ AllBefore(CallsOf(tr, CollectionClicks), {Len(tr)})
                /\ tasks'[t].ret.fuel >= safe_threshold
                /\ bot_state'.status = "fast_search_complete"]_vars

\* A search has just succeeded in an attempt that clicked fuel nodes and
\* equipment.
SucceededAfterBothCollections ==
    \E t \in TaskIds :
        /\ tasks[t].ret.fn = "persistent_fuel_and_equipment_search"
        /\ tasks[t].ret.val
        /\ CallsOf(acts.keys, {"click_fuel"}) # {}
        /\ CallsOf(acts.keys, {"click_equip"}) # {}
        /\ bot_state.status = "fast_search_complete"

----------------------------------------------------------------------------
(* Properties of fast_collect_fuel_from_nodes *)

Collected == Len(probe.outs) = 2 /\ probe.outs[2].kind = "collected"

\* The clicks among the calls, in order.
RECURSIVE ClicksIn(_)
ClicksIn(calls) ==
    IF calls = <<>> THEN <<>>
    ELSE (IF Head(calls).call = "click" THEN <<Head(calls)>> ELSE <<>>) \o ClicksIn(Tail(calls))

\* The position in calls of the k-th click.
ClickPosition(calls, k) ==
    CHOOSE p \in 1 .. Len(calls) :
        calls[p].call = "click" /\ Len(ClicksIn(SubSeq(calls, 1, p))) = k

\* C30: the collection clicks the nodes in the order the detector returned
\* them, which is by non-increasing estimated value, clicks at most 5 of
\* them, reads the gauge right after every second click, clicks nothing
\* once a reading is at or above safe_threshold, and otherwise, when no
\* click raises, clicks each of the first 5 nodes.
CollectsInOrderAndStops ==
    Collected =>
        LET nodes == probe.outs[1].items
            calls == probe.outs[2].items
            clicks == ClicksIn(calls)
            stopped == \E p \in 1 .. Len(calls) :
                          calls[p].call = "detect_fuel_level" /\ calls[p].fuel >= safe_threshold
        IN  /\ Len(clicks) <= 5
            /\ Len(clicks) <= Len(nodes)
            /\ \A k \in 1 .. Len(clicks) :
                  clicks[k].x = nodes[k].x /\ clicks[k].y = nodes[k].y
            /\ \A k \in 1 .. Len(nodes) - 1 :
                  nodes[k].estimated_value >= nodes[k + 1].estimated_value
            /\ \A k \in 1 .. Len(clicks) :
                  k % 2 = 0 =>
                      LET p == ClickPosition(calls, k)
                      IN  p < Len(calls) /\ calls[p + 1].call = "detect_fuel_level"
            /\ \A p \in 1 .. Len(calls), q \in 1 .. Len(calls) :
                  (p < q /\ calls[p].call = "detect_fuel_level"
                         /\ calls[p].fuel >= safe_threshold) => calls[q].call # "click"
            /\ (probe.calls[1].raises_at = 0 /\ ~stopped) => Len(clicks) = Min(Len(nodes), 5)

\* Six nodes, detected in another order than they are clicked; the second
\* reading is safe and the collection stops after four clicks.
StoppedAfterFourOfSix ==
    /\ Collected
    /\ Len(probe.outs[1].items) >= 6
    /\ probe.outs[1].items[1].area # probe.calls[1].contours[1].area
    /\ Len(ClicksIn(probe.outs[2].items)) = 4
    /\ probe.outs[2].items[Len(probe.outs[2].items)].fuel >= safe_threshold

----------------------------------------------------------------------------
(* Properties of death handling *)

\* Task t, with the coroutine fn at pc on top, takes a step.
StepsAt(t, fn, pc) == At(t, fn, pc) /\ tasks'[t] # tasks[t]

\* keys starts with the loadout configuration.
StartsWithLoadout(keys) ==
    Len(keys) >= Len(ConfigureKeys) /\ SubSeq(keys, 1, Len(ConfigureKeys)) = ConfigureKeys

\* C31 as stated: death handling presses the quit key and then calls the
\* overview-map teleport, which opens the map; the landing sequence starts
\* with the loadout configuration; and death handling completes only after
\* a teleport that ran its landing sequence, also when the screenshot of the
\* overview map cannot be analysed.
RespawnAlwaysConfigures ==
    [][\A t \in TaskIds :
          /\ StepsAt(t, "handle_death_and_respawn", "start") =>
                /\ acts'.keys = <<"q">>
                /\ tasks'[t].stack[Len(tasks'[t].stack)].fn = "use_overview_map_for_fuel"
          /\ StepsAt(t, "use_overview_map_for_fuel", "start") =>
                /\ acts'.keys # <<>>
                /\ acts'.keys[1] = "f"
          /\ StepsAt(t, "execute_landing_sequence", "start") => StartsWithLoadout(acts'.keys)
          /\ StepsAt(t, "handle_death_and_respawn", "after") =>
                /\ tasks[t].ret.fn = "use_overview_map_for_fuel"
                /\ tasks[t].ret.pc = "after"]_vars

----------------------------------------------------------------------------
(* Properties of the shield key *)

\* The key activate_shields presses.
ShieldKey == "1"

----------------------------------------------------------------------------
(* Properties of the order of the gauge areas *)

\* What the a-th area of the screenshot of call i measures.
MeasuredIn(i, a) ==
    measure_fuel_gauge_simple(probe.calls[i].img, GaugeAreas(probe.calls[i].img)[a])

\* C33 as stated: on a screenshot it could read, the sampler returns the
\* measurement of the first area, in the order bottom 15%, bottom 25%,
\* right 20%, middle right, that measures anything, a measured 0 included.
FirstMeasurementWins ==
    \A i \in Sampled :
        (probe.calls[i].page /\ ~probe.calls[i].raises /\ probe.calls[i].decodes) =>
            \A a \in 1 .. 4 :
                (/\ MeasuredIn(i, a) # None
                 /\ \A b \in 1 .. (a - 1) : MeasuredIn(i, b) = None)
                    => probe.outs[i] = MeasuredIn(i, a)

----------------------------------------------------------------------------
(* Properties of the detectors' results *)

Detected == Len(probe.outs) = 1 /\ probe.outs[1].kind \in {"fuel", "equipment"}

\* The margin of the detector that produced the result.
EdgeMargin == IF probe.outs[1].kind = "fuel" THEN 40 ELSE 50

\* The left and top of the bounding box of a returned object, whose x and y
\* are the centre of the box.
BoxLeft(item) == item.x - (item.width \div 2)
BoxTop(item) == item.y - (item.height \div 2)

\* C34: the bounding box of every object a detector returns lies more than
\* the detector's margin (40 px for fuel nodes, 50 px for equipment) inside
\* the image on every side, and its click centre is inside the image.
BoxesInsideMargins ==
    Detected =>
        \A k \in 1 .. Len(probe.outs[1].items) :
            LET item == probe.outs[1].items[k]
                img == probe.calls[1].img
            IN  /\ EdgeMargin < BoxLeft(item)
                /\ BoxLeft(item) + item.width < img.width - EdgeMargin
                /\ EdgeMargin < BoxTop(item)
                /\ BoxTop(item) + item.height < img.height - EdgeMargin
                /\ 0 <= item.x /\ item.x < img.width
                /\ 0 <= item.y /\ item.y < img.height

\* The fuel detector kept a blob 45 px from the left and top edges and one
\* as far from the right and bottom edges; the equipment detector would
\* have discarded both.
KeptJustInsideMargin ==
    /\ Detected
    /\ probe.outs[1].kind = "fuel"
    /\ \E j \in 1 .. Len(probe.outs[1].items) : BoxLeft(probe.outs[1].items[j]) = 45
    /\ \E k \in 1 .. Len(probe.outs[1].items) : BoxLeft(probe.outs[1].items[k]) = 1215
    /\ EquipmentOf(probe.calls[1]) = <<>>

\* The candidates of the detector that produced the result, before they
\* are sorted and capped, its limit and its sort key.
Candidates ==
    IF probe.outs[1].kind = "fuel"
    THEN FuelNodeItems(probe.calls[1].contours, probe.calls[1].img)
    ELSE EquipmentItems(probe.calls[1].contours, probe.calls[1].img)

ResultLimit == IF probe.outs[1].kind = "fuel" THEN 10 ELSE 8

RankOf(item) == IF probe.outs[1].kind = "fuel" THEN item.estimated_value ELSE item.area

Range(q) == {q[k] : k \in 1 .. Len(q)}

\* C35: detect_fuel_nodes returns at most 10 objects and
\* detect_equipment_visually at most 8; the objects returned are candidates,
\* as many as the limit allows, and no candidate left out ranks above a
\* returned one.
ResultsCapped ==
    Detected =>
        LET items == probe.outs[1].items IN
        /\ Len(items) <= ResultLimit
        /\ Len(items) = Min(Len(Candidates), ResultLimit)
        /\ Range(items) \subseteq Range(Candidates)
        /\ \A kept \in Range(items), out \in Range(Candidates) \ Range(items) :
              RankOf(out) <= RankOf(kept)

\* Twelve candidates, of which the equipment detector returned eight.
EightOfTwelve ==
    /\ Detected
    /\ probe.outs[1].kind = "equipment"
    /\ Len(Candidates) = 12
    /\ Len(probe.outs[1].items) = 8

----------------------------------------------------------------------------
(* Properties of the running flag *)

\* C36 as stated: the running flag of the state record, which the status
\* API returns, is true exactly while a control loop is alive; after the
\* loop has ended by itself the flag is false.
RunningFlagMeansLoopAlive ==
    bot_state.running <=> \E t \in TaskIds : Alive(t)

----------------------------------------------------------------------------
(* Properties of stop *)

\* bot_state["running"] is cleared in this step: stop is the only writer of
\* False.
ClearsRunning == bot_state.running /\ ~bot_state'.running

\* stop takes its first step, and stop returns, in this step.
StopBegins == stopper = "idle" /\ (stopper' # "idle" \/ ClearsRunning)
StopReturns == stopper' = "idle" /\ (stopper # "idle" \/ ClearsRunning)

\* C37 as stated: stop clears running in its first step, before anything
\* is released; it presses the exit-map key in that step exactly when there
\* is a page; and in the step in which it returns the status is "stopped"
\* and page and browser are both None.
StopCompletesInOrder ==
    [][/\ StopBegins =>
             /\ ~running' /\ ~bot_state'.running
             /\ page' = page /\ browser' = browser
             /\ (acts'.by = "stop") <=> (page # "none")
       /\ StopReturns =>
             /\ bot_state'.status = "stopped"
             /\ page' = "none"
             /\ browser' = "none"]_vars

----------------------------------------------------------------------------
(* Properties of a search that starts with a safe gauge *)

\* C38: a persistent search whose first fuel sample is at or above
\* safe_threshold issues no key press and no click, makes no attempt, does
\* not call the overview map, and returns true.
SafeStartReturnsAtOnce ==
    [][\A t \in TaskIds :
          /\ StepsAt(t, "persistent_fuel_and_equipment_search", "start") => acts' = NoActs
          /\ (/\ StepsAt(t, "persistent_fuel_and_equipment_search", "loop")
              /\ Top(t).att = 0
              /\ Top(t).fuel >= safe_threshold)
                 => /\ SucceedsIn(t)
                    /\ acts' = NoActs
                    /\ bot_state' = bot_state]_vars

\* The search called on its own has returned true and no attempt has
\* published its status.
ReturnedWithoutAttempt ==
    \E t \in TaskIds :
        /\ tasks[t].stack = <<>>
        /\ tasks[t].ret.fn = "persistent_fuel_and_equipment_search"
        /\ tasks[t].ret.val
        /\ tasks[t].ret.fuel >= safe_threshold
        /\ bot_state = InitialBotState
        /\ acts = NoActs

----------------------------------------------------------------------------
(* Properties of the balanced sequence *)

BalancedCollected == Len(probe.outs) = 2 /\ probe.outs[2].kind = "balanced"

\* The calls made by the collection of the balanced sequence: at most two
\* clicks, on the first nodes of the detector's result in its order, each
\* right after a fuel sample below safe_threshold, and none after a sample
\* at or above it.
BalancedCollectionBounded ==
    BalancedCollected =>
        LET nodes == probe.outs[1].items
            calls == probe.outs[2].items
            clicks == ClicksIn(calls)
        IN  /\ Len(clicks) <= 2
            /\ Len(clicks) <= Len(nodes)
            /\ \A k \in 1 .. Len(clicks) :
                  clicks[k].x = nodes[k].x /\ clicks[k].y = nodes[k].y
            /\ \A q \in 1 .. Len(calls) :
                  calls[q].call = "click" =>
                      /\ q > 1
                      /\ calls[q - 1].call = "detect_fuel_level"
                      /\ \A p \in 1 .. (q - 1) :
                            calls[p].call = "detect_fuel_level" => calls[p].fuel < safe_threshold

\* C39: the balanced sequence explores only while nothing was detected, at
\* most 5 times, with the proximity move on the even iterations counted
\* from 0 and the edge exploration on the odd ones, one move per iteration;
\* it stops exploring at the first detection; and it then collects at most
\* 2 fuel nodes, never clicking after a fuel sample at or above
\* safe_threshold.
BalancedIsBounded ==
    [][/\ \A t \in TaskIds :
             /\ StepsAt(t, "execute_balanced_sequence", "explore") =>
                   /\ Top(t).nodes + Top(t).equips = 0
                   /\ Top(t).att < 5
                   /\ Cardinality(CallsOf(acts'.keys, TacticClicks)) = 1
                   /\ IF Top(t).att % 2 = 0
                      THEN CallsOf(acts'.keys, {"click_proximity"}) # {}
                      ELSE CallsOf(acts'.keys, {"click_edge"}) # {}
                   /\ At(t, "execute_balanced_sequence", "explore")' =>
                         Top(t)'.nodes + Top(t)'.equips = 0
             /\ StepsAt(t, "execute_balanced_sequence", "start") =>
                   CallsOf(acts'.keys, TacticClicks) = {}
             /\ StepsAt(t, "execute_balanced_sequence", "collect") =>
                   /\ CallsOf(acts'.keys, TacticClicks) = {}
                   /\ Cardinality(CallsOf(acts'.keys, {"click_fuel"})) <= 2
                   /\ Cardinality(CallsOf(acts'.keys, {"click_fuel"})) <= Top(t).nodes
       /\ BalancedCollectionBounded']_vars

\* The sequence found nothing five times, the last move being a proximity
\* move, and went on to its collection.
ExploredFiveTimes ==
    \E t \in TaskIds :
        /\ At(t, "execute_balanced_sequence", "collect")
        /\ Top(t).att = 5
        /\ Top(t).nodes + Top(t).equips = 0
        /\ CallsOf(acts.keys, {"click_proximity"}) # {}

\* Taken on its own, the collection stopped after one click of three nodes.
StoppedAfterOneOfThree ==
    /\ BalancedCollected
    /\ Len(probe.outs[1].items) >= 3
    /\ Len(ClicksIn(probe.outs[2].items)) = 1
    /\ probe.outs[2].items[3].fuel >= safe_threshold

\* C40: at every status broadcast of the control loop (the one of the tick
\* after it has stored its sample, the one of a tick that finds the session
\* lost, the one that opens the handling of a death) the published
\* current_fuel is the value that the loop's most recent call of
\* detect_fuel_level returned, wherever that call was made.
BroadcastsStatus(t) ==
    \/ StepsAt(t, "run_bot_cycle", "sample")
    \/ StepsAt(t, "handle_death_and_respawn", "start")
    \/ /\ StepsAt(t, "run_bot_cycle", "loop")
       /\ running
       /\ page = "none" \/ browser = "none"

PublishedFuelNeverStale ==
    [][\A t \in TaskIds :
          BroadcastsStatus(t) /\ tasks[t].sampled # NoSample =>
             bot_state'.current_fuel = tasks'[t].sampled]_vars

====
